---- MODULE Spec2Model ----
(***************************************************************************)
(* A model of the MCP protocol engine (src/src/lib/mcp-server.js) and of   *)
(* its line-framed transport (src/src/transports/stdio-transport.js).      *)
(*                                                                         *)
(* JavaScript values are encoded as follows.  A JSON-RPC id is written as  *)
(* its JSON text, so that the number 0 ("0") and the string "0" ("\"0\"")  *)
(* stay different keys, as they are for a JavaScript Map.  A key that is   *)
(* missing from a decoded object is Absent; the JavaScript value undefined *)
(* is Undefined; JSON.stringify drops a key whose value is undefined.      *)
(***************************************************************************)
EXTENDS Integers, Sequences, FiniteSets, TLC

VARIABLES
    transport,          \* McpServer.transport: "null", "started", "closed"
    requestHandlers,    \* McpServer.requestHandlers: the registered methods
    responseHandlers,   \* McpServer._responseHandlers: ids awaiting a response
    timers,             \* the armed 60 s timers of request(), by id
    requestId,          \* McpServer.requestId
    callers,            \* the promise request() returned, by id
    clientCapabilities, \* McpServer._clientCapabilities
    clientVersion,      \* McpServer._clientVersion
    inflight,           \* handler invocations whose promise is still pending
    unhandled,          \* rejections of _handleRequest/_sendError nobody catches
    received,           \* history: the messages _onMessage was called with
    calls,              \* history: the handler invocations, in order
    ended,              \* history: how each ended handler invocation ended
    sent,               \* history: the messages transport.send wrote
    routed,             \* history: the branch of _onMessage each message took
    stream,             \* the characters that will arrive on stdin
    pos,                \* how many of them have arrived, in chunks
    buffer,             \* StdioTransport._buffer
    events,             \* history: the onmessage/onerror calls of the transport
    started,            \* StdioTransport._started
    stdout,             \* the characters written to the output sink
    sendLog,            \* history: the send() calls and how each ended
    listeners,          \* the 'data' listeners the transport has on its input
    stdioLog,           \* history: StdioTransport start()/close() calls, onclose
    writes,             \* history: the write() calls on the sink and its answers
    waiting,            \* the send() calls whose promise waits for 'drain'
    settled,            \* history: the send() promises that settled, in order
    drained,            \* how many 'drain' events the sink has emitted
    stderr,             \* the lines written to the diagnostic stream
    hStarted,           \* HttpSseTransport._started
    hServer,            \* HttpSseTransport._server: 0 (null) or a server of servers
    servers,            \* the HTTP servers start() created, and their state
    sessions,           \* HttpSseTransport._sessions: session id -> channel
    channels,           \* the push channels (res of a GET), and their frames
    uuids,              \* how many ids uuidv4 has generated
    hlog,               \* history: the calls, callbacks and frames, in order
    cTransport,         \* McpClient.transport: "null" or "started"
    cRequestId,         \* McpClient.requestId
    cHandlers,          \* McpClient._responseHandlers: ids awaiting a response
    cTimers,            \* the armed 60 s timers of McpClient.request, by id
    cInitialized,       \* McpClient._initialized
    cCalls,             \* the connect() calls: the id each asked with, its promise,
                        \*   and history: whether _initialized was false at the call
    cLog,               \* history: what the client sent and received, in order
    eventSource,        \* McpSseClient.eventSource: FALSE (null) or TRUE
    nextId,             \* McpSseClient.nextId
    pendingRequests,    \* McpSseClient.pendingRequests: the ids it holds
    requests            \* the request() calls: the POST, the response promise,
                        \*   and history: what close() found and the settle calls

engineVars == <<transport, requestHandlers, responseHandlers, timers, requestId,
                callers, clientCapabilities, clientVersion, inflight, unhandled,
                received, calls, ended, sent, routed>>
stdioVars == <<stream, pos, buffer, events, started, stdout, sendLog,
               listeners, stdioLog, writes, waiting, settled, drained, stderr>>
httpVars == <<hStarted, hServer, servers, sessions, channels, uuids, hlog>>
testClientVars == <<cTransport, cRequestId, cHandlers, cTimers, cInitialized,
                    cCalls, cLog>>
sseVars == <<eventSource, nextId, pendingRequests, requests>>
clientVars == <<testClientVars, sseVars>>
vars == <<engineVars, stdioVars, httpVars, clientVars>>

(***************************************************************************)
(* Bounds of the model.                                                    *)
(***************************************************************************)
MaxMsgs == 2        \* inbound messages delivered to one engine
MaxReq == 2         \* outbound requests issued by request()
MaxStream == 5      \* characters of the input stream
MaxSends == 2       \* send() calls on one transport
MaxCalls == 3       \* entries of the start()/close() history of one transport
MaxSubs == 2        \* subscribes (GET) on one HTTP transport
MaxPosts == 2       \* submits (POST) and send() calls on one HTTP transport
MaxStarts == 2      \* start() calls on one HTTP transport
MaxCloses == 2      \* close() calls on one HTTP transport
MaxHandshake == 3   \* inbound messages of the handshake scenario
MaxToolCalls == 1   \* tools/call requests of the calculator scenario
MaxConnects == 2    \* connect() calls on one client
MaxClientLog == 6   \* entries of the history of one client
MaxSseRequests == 2 \* request() calls on one McpSseClient

(***************************************************************************)
(* Constants of the program.                                               *)
(***************************************************************************)
Absent == "absent"
Undefined == "undefined"
JSONRPC_VERSION == "2.0"
LATEST_PROTOCOL_VERSION == "2024-11-05"
SUPPORTED_PROTOCOL_VERSIONS == {LATEST_PROTOCOL_VERSION, "2024-10-07"}
SERVER_INFO == "simple-mcp-server/0.1.0"
ServerCapabilities == "options.capabilities"

\* The texts of the errors the engine sends.
InvalidVersionText == "Invalid Request: Not a valid JSON-RPC 2.0 message"
InvalidRequestText == "Invalid Request"
InternalErrorText == "Internal error"
MethodNotFoundTextMutant(method) == "Method not found"
MethodNotFoundText(method) == "Method not found: " \o method
\* The text of the TypeError JSON.stringify throws on a value it cannot encode.
SerializeErrorText == "Converting circular structure to JSON"
NotStartedText == "Cannot send message: transport not started"

(***************************************************************************)
(* Inbound messages, as decoded objects.  payload says which of the keys   *)
(* result and error the object has.                                        *)
(***************************************************************************)
NoParams == [present |-> FALSE]
InitParams(v, c, i) ==
    [present |-> TRUE, protocolVersion |-> v, capabilities |-> c, clientInfo |-> i]
InitParamsSet ==
    { NoParams,
      InitParams("2024-11-05", "capsA", "clientA"),
      InitParams("2024-10-07", "capsB", "clientB"),
      InitParams("1999-01-01", "capsA", "clientB"),
      InitParams(Undefined, "capsB", "clientA") }

Ids == {"0", "\"a\""}

Msg(j, i, m, p, pr) ==
    [jsonrpc |-> j, id |-> i, method |-> m, payload |-> p, params |-> pr]

Requests ==
    { Msg("2.0", "0", "initialize", "none", pr) : pr \in InitParamsSet }
    \cup { Msg("2.0", "\"a\"", "initialize", "none", InitParams("2024-10-07", "capsB", "clientB")) }
    \cup { Msg("2.0", i, m, "none", NoParams) :
             i \in Ids, m \in {"ping", "tools/call", "nope"} }
Notifications ==
    { Msg("2.0", Absent, m, "none", NoParams) :
        m \in {"notifications/initialized", "tools/call"} }
Responses ==
    { Msg("2.0", "0", Absent, "result", NoParams), Msg("2.0", "1", Absent, "error", NoParams) }
Invalids ==
    { Msg("2.0", i, Absent, "none", NoParams) : i \in {"0", Absent} }
BadVersions ==
    { Msg("1.0", "0", "ping", "none", NoParams),
      Msg("1.0", Absent, "ping", "none", NoParams),
      Msg(Absent, "\"a\"", Absent, "none", NoParams) }

\* Messages that have more keys than their kind needs.
Overlaps ==
    { Msg("2.0", "0", "ping", "result", NoParams),
      Msg("2.0", Absent, "tools/call", "error", NoParams),
      Msg("2.0", Absent, Absent, "result", NoParams) }

Messages ==
    Requests \cup Notifications \cup Responses \cup Invalids \cup BadVersions
    \cup Overlaps

\* message.id: undefined when the key is missing.
IdOf(m) == IF m.id = Absent THEN Undefined ELSE m.id

(***************************************************************************)
(* JavaScript values a handler returns, and the ways a handler call ends.  *)
(***************************************************************************)
JsUndefined == [t |-> "undefined"]
JsObject(b) == [t |-> "object", body |-> b]
JsCircular == [t |-> "circular"]      \* an object JSON.stringify throws on
Returns(v) == [t |-> "return", value |-> v, message |-> ""]
Throws(text) == [t |-> "throw", value |-> JsUndefined, message |-> text]
Pending == [t |-> "pending", value |-> JsUndefined, message |-> ""]

\* How a call of a handler registered by the application may end once it ends.
UserOutcomes ==
    { Returns(JsObject("tool result")), Returns(JsUndefined), Returns(JsCircular),
      Throws("boom"), Throws("") }

(***************************************************************************)
(* Outbound messages: the object handed to transport.send.                 *)
(* re is history: the position in received of the message it answers.      *)
(***************************************************************************)
ResponseObjMutant(id, result, re) ==
    [jsonrpc |-> JSONRPC_VERSION, id |-> IF id = "0" THEN Undefined ELSE id,
     kind |-> "result", result |-> result,
     code |-> 0, message |-> "", method |-> "", re |-> re]
ResponseObj(id, result, re) ==
    [jsonrpc |-> JSONRPC_VERSION, id |-> id, kind |-> "result", result |-> result,
     code |-> 0, message |-> "", method |-> "", re |-> re]
ErrorObj(id, code, message, re) ==
    [jsonrpc |-> JSONRPC_VERSION, id |-> id, kind |-> "error", result |-> JsUndefined,
     code |-> code, message |-> message, method |-> "", re |-> re]
RequestObj(id, method, params) ==
    [jsonrpc |-> JSONRPC_VERSION, id |-> id, kind |-> "request", result |-> params,
     code |-> 0, message |-> "", method |-> method, re |-> 0]

\* JSON.stringify throws on a value it cannot encode.
Serializable(obj) == obj.result.t # "circular"

\* JSON.stringify: a key whose value is undefined is left out.
Stringify(obj) ==
    [obj EXCEPT !.id = IF @ = Undefined THEN Absent ELSE @,
                !.kind = IF @ = "result" /\ obj.result.t = "undefined"
                         THEN "none" ELSE @]

(***************************************************************************)
(* The engine.  E is the record of the engine's fields and histories; an   *)
(* operator takes E and gives E after the code has run.  micro is the      *)
(* queue of continuations that run when the current call stack is done.    *)
(***************************************************************************)
EngineState ==
    [responseHandlers |-> responseHandlers, timers |-> timers, callers |-> callers,
     clientCapabilities |-> clientCapabilities, clientVersion |-> clientVersion,
     inflight |-> inflight, unhandled |-> unhandled, received |-> received,
     calls |-> calls, ended |-> ended, sent |-> sent, routed |-> routed,
     micro |-> <<>>]

\* transport.send(obj), as the engine sees it: the frame is written, or the
\* returned promise rejects with err.
TransportSend(E, obj) ==
    IF transport # "started"
    THEN [ok |-> FALSE, err |-> NotStartedText, E |-> E]
    ELSE IF ~Serializable(obj)
    THEN [ok |-> FALSE, err |-> SerializeErrorText, E |-> E]
    ELSE [ok |-> TRUE, err |-> "",
          E |-> [E EXCEPT !.sent = Append(@, Stringify(obj))]]

\* _sendResponse / _sendError called where nothing catches their rejection.
SendError(E, id, code, message, re) ==
    LET r == TransportSend(E, ErrorObj(id, code, message, re))
    IN  IF r.ok THEN r.E ELSE [E EXCEPT !.unhandled = @ + 1]

ErrTextMutant(text) == text

\* error.message || 'Internal error'
ErrText(text) == IF text = "" THEN InternalErrorText ELSE text

\* A promise settles once.
Settle(status, new) == IF status = "pending" THEN new ELSE status

NegotiateMutant(requestedVersion) == requestedVersion

\* _handleInitialize: the negotiated protocol version.
Negotiate(requestedVersion) ==
    IF requestedVersion \in SUPPORTED_PROTOCOL_VERSIONS
    THEN requestedVersion
    ELSE LATEST_PROTOCOL_VERSION

\* params || {}
ParamsOrEmpty(params) ==
    IF params.present THEN params ELSE InitParams(Undefined, Undefined, Undefined)

InitializeResult(params) ==
    [t |-> "object", body |-> "initialize",
     protocolVersion |-> Negotiate(params.protocolVersion),
     capabilities |-> ServerCapabilities, serverInfo |-> SERVER_INFO]

ContinueMutant(E, c) ==
    LET D == [E EXCEPT !.ended = @ \cup {[re |-> c.re, outcome |-> c.outcome]}]
    IN  IF D.clientVersion = "null"
        THEN SendError(D, c.id, -32002, "Server not initialized", c.re)
        ELSE IF c.outcome.t = "return"
        THEN LET r == TransportSend(D, ResponseObj(c.id, c.outcome.value, c.re))
             IN  IF r.ok THEN r.E
                 ELSE SendError(D, c.id, -32603, ErrText(r.err), c.re)
        ELSE SendError(D, c.id, -32603, ErrText(c.outcome.message), c.re)

\* _handleRequest after `await handler(...)`: c = [re, id, outcome].
Continue(E, c) ==
    LET D == [E EXCEPT !.ended = @ \cup {[re |-> c.re, outcome |-> c.outcome]}]
    IN  IF c.outcome.t = "return"
        THEN LET r == TransportSend(D, ResponseObj(c.id, c.outcome.value, c.re))
             IN  IF r.ok THEN r.E
                 ELSE SendError(D, c.id, -32603, ErrText(r.err), c.re)
        ELSE SendError(D, c.id, -32603, ErrText(c.outcome.message), c.re)

\* _handleRequest up to its `await`: k is the message's position in received,
\* o the way the application's handler ends if this request calls it.
HandleRequest(E, m, k, o) ==
    IF m.method \notin requestHandlers
    THEN SendError(E, m.id, -32601, MethodNotFoundText(m.method), k)
    ELSE LET called == [E EXCEPT !.calls = Append(@, [re |-> k, method |-> m.method,
                                                       pending |-> o.t = "pending"])]
             p == ParamsOrEmpty(m.params)
         IN  CASE m.method = "initialize" ->
                    [called EXCEPT
                       !.clientCapabilities = p.capabilities,
                       !.clientVersion = p.clientInfo,
                       !.micro = Append(@, [re |-> k, id |-> m.id,
                                            outcome |-> Returns(InitializeResult(p))])]
               [] m.method = "ping" ->
                    [called EXCEPT
                       !.micro = Append(@, [re |-> k, id |-> m.id,
                                            outcome |-> Returns(JsObject("{}"))])]
               [] OTHER ->
                    IF o.t = "pending"
                    THEN [called EXCEPT
                            !.inflight = @ \cup {[re |-> k, id |-> m.id]}]
                    ELSE [called EXCEPT
                            !.micro = Append(@, [re |-> k, id |-> m.id, outcome |-> o])]

HandleNotificationMutant(E, m) ==
    SendError(E, Undefined, -32601, MethodNotFoundText(m.method), Len(E.received))

\* _handleNotification: it logs, and nothing else.
HandleNotification(E, m) == E

\* The closure request() stored for an id, called with response m: it reads
\* response.error.code, which throws a TypeError when error is null; the
\* transport that called _onMessage catches it, and the promise stays as it is.
ResponseHandler(status, m) ==
    CASE m.payload = "error" -> Settle(status, "rejected")
      [] m.payload = "error null" -> status
      [] OTHER -> Settle(status, "fulfilled")

\* _handleResponse: the closure clears the timer before it reads the response.
HandleResponse(E, m) ==
    IF m.id \in E.responseHandlers
    THEN [E EXCEPT !.responseHandlers = @ \ {m.id},
                   !.timers = @ \ {m.id},
                   !.callers[m.id] = ResponseHandler(@, m)]
    ELSE E

\* History: message k took the branch path of _onMessage.
Route(E, k, path) == [E EXCEPT !.routed = Append(@, [re |-> k, path |-> path])]

OnMessageMutant(E, m, k, o) ==
    IF m.jsonrpc # JSONRPC_VERSION
    THEN SendError(Route(E, k, "version"), IdOf(m), -32600, InvalidVersionText, k)
    ELSE IF m.id # Absent /\ m.payload # "none"
    THEN HandleResponse(Route(E, k, "response"), m)
    ELSE IF m.id # Absent /\ m.method # Absent
    THEN HandleRequest(Route(E, k, "request"), m, k, o)
    ELSE IF m.id = Absent /\ m.method # Absent
    THEN HandleNotification(Route(E, k, "notification"), m)
    ELSE IF m.id # Absent
    THEN SendError(Route(E, k, "invalid"), m.id, -32600, InvalidRequestText, k)
    ELSE Route(E, k, "invalid")

\* _onMessage(m): k is the position of m in received.
OnMessage(E, m, k, o) ==
    IF m.jsonrpc # JSONRPC_VERSION
    THEN SendError(Route(E, k, "version"), IdOf(m), -32600, InvalidVersionText, k)
    ELSE IF m.id # Absent /\ m.method # Absent
    THEN HandleRequest(Route(E, k, "request"), m, k, o)
    ELSE IF m.id = Absent /\ m.method # Absent
    THEN HandleNotification(Route(E, k, "notification"), m)
    ELSE IF m.id # Absent /\ m.payload # "none"
    THEN HandleResponse(Route(E, k, "response"), m)
    ELSE IF m.id # Absent
    THEN SendError(Route(E, k, "invalid"), m.id, -32600, InvalidRequestText, k)
    ELSE Route(E, k, "invalid")

RECURSIVE ProcessFramesMutant(_, _, _, _)
ProcessFramesMutant(E, chunk, outcomes, i) ==
    IF i > Len(chunk) THEN E
    ELSE LET j == Len(chunk) + 1 - i
         IN  ProcessFramesMutant(OnMessage(E, chunk[j], Len(received) + j, outcomes[j]),
                                 chunk, outcomes, i + 1)

\* The loop of StdioTransport._onData over the frames of one chunk, from frame i.
RECURSIVE ProcessFrames(_, _, _, _)
ProcessFrames(E, chunk, outcomes, i) ==
    IF i > Len(chunk) THEN E
    ELSE ProcessFrames(OnMessage(E, chunk[i], Len(received) + i, outcomes[i]),
                       chunk, outcomes, i + 1)

\* The continuations queued during the call run in order once it returns.
RECURSIVE Drain(_)
Drain(E) ==
    IF E.micro = <<>> THEN E
    ELSE Drain(Continue([E EXCEPT !.micro = Tail(@)], Head(E.micro)))

\* Whether message m makes the engine call the application's handler.
CallsUserHandler(m) ==
    /\ m.jsonrpc = JSONRPC_VERSION
    /\ m.id # Absent
    /\ m.method \in requestHandlers \ {"initialize", "ping"}

Commit(E) ==
    /\ responseHandlers' = E.responseHandlers
    /\ timers' = E.timers
    /\ callers' = E.callers
    /\ clientCapabilities' = E.clientCapabilities
    /\ clientVersion' = E.clientVersion
    /\ inflight' = E.inflight
    /\ unhandled' = E.unhandled
    /\ received' = E.received
    /\ calls' = E.calls
    /\ ended' = E.ended
    /\ sent' = E.sent
    /\ routed' = E.routed

(***************************************************************************)
(* The actions of the engine.                                              *)
(***************************************************************************)
EngineInit ==
    /\ transport = "null"
    /\ requestHandlers = {"initialize", "ping"}
    /\ responseHandlers = {}
    /\ timers = {}
    /\ requestId = 0
    /\ callers = <<>>
    /\ clientCapabilities = "null"
    /\ clientVersion = "null"
    /\ inflight = {}
    /\ unhandled = 0
    /\ received = <<>>
    /\ calls = <<>>
    /\ ended = {}
    /\ sent = <<>>
    /\ routed = <<>>

\* connect(transport)
Connect ==
    /\ transport = "null"
    /\ transport' = "started"
    /\ UNCHANGED <<requestHandlers, responseHandlers, timers, requestId, callers,
                   clientCapabilities, clientVersion, inflight, unhandled,
                   received, calls, ended, sent, routed>>
    /\ UNCHANGED <<stdioVars, httpVars, clientVars>>

\* close()
Close ==
    /\ transport = "started"
    /\ transport' = "closed"
    /\ UNCHANGED <<requestHandlers, responseHandlers, timers, requestId, callers,
                   clientCapabilities, clientVersion, inflight, unhandled,
                   received, calls, ended, sent, routed>>
    /\ UNCHANGED <<stdioVars, httpVars, clientVars>>

\* setRequestHandler(method, handler), called by the application.
SetRequestHandler(method) ==
    /\ requestHandlers' = requestHandlers \cup {method}
    /\ requestHandlers' # requestHandlers
    /\ UNCHANGED <<transport, responseHandlers, timers, requestId, callers,
                   clientCapabilities, clientVersion, inflight, unhandled,
                   received, calls, ended, sent, routed>>
    /\ UNCHANGED <<stdioVars, httpVars, clientVars>>

\* One chunk of frames arrives: the transport calls _onMessage on each in
\* order, then the queued continuations run.
Deliver(chunk, outcomes) ==
    /\ transport = "started"
    /\ LET arrived == [i \in 1..Len(chunk) |->
                          [msg |-> chunk[i], handlers |-> requestHandlers]]
       IN  Commit(Drain(ProcessFrames(
                  [EngineState EXCEPT !.received = @ \o arrived], chunk, outcomes, 1)))
    /\ UNCHANGED <<transport, requestHandlers, requestId>>
    /\ UNCHANGED <<stdioVars, httpVars, clientVars>>

\* The promise of a pending handler invocation settles.
Complete(c, o) ==
    /\ c \in inflight
    /\ Commit(Continue([EngineState EXCEPT !.inflight = @ \ {c}],
                       [re |-> c.re, id |-> c.id, outcome |-> o]))
    /\ UNCHANGED <<transport, requestHandlers, requestId>>
    /\ UNCHANGED <<stdioVars, httpVars, clientVars>>

IncrementMutant(n) == n

\* this.requestId++
Increment(n) == n + 1

\* request(method, params): params is the value the caller passes.
Request(params) ==
    /\ transport = "started"
    /\ requestId < MaxReq
    /\ LET id == ToString(requestId)
           armed == [EngineState EXCEPT
                        !.timers = @ \cup {id},
                        !.responseHandlers = @ \cup {id},
                        !.callers = @ @@ (id :> "pending")]
           r == TransportSend(armed, RequestObj(id, "sampling/createMessage", params))
       IN  /\ requestId' = Increment(requestId)
           /\ Commit(IF r.ok THEN r.E
                     ELSE [armed EXCEPT !.callers[id] = Settle(@, "send failed")])
    /\ UNCHANGED <<transport, requestHandlers>>
    /\ UNCHANGED <<stdioVars, httpVars, clientVars>>

TimeoutMutant(id) ==
    /\ id \in timers
    /\ timers' = {}
    /\ responseHandlers' = {}
    /\ callers' = [callers EXCEPT ![id] = Settle(@, "timed out")]
    /\ UNCHANGED <<transport, requestHandlers, requestId, clientCapabilities,
                   clientVersion, inflight, unhandled, received, calls, ended, sent,
                   routed>>
    /\ UNCHANGED <<stdioVars, httpVars, clientVars>>

\* The 60 s timer of request id fires.
Timeout(id) ==
    /\ id \in timers
    /\ timers' = timers \ {id}
    /\ responseHandlers' = responseHandlers \ {id}
    /\ callers' = [callers EXCEPT ![id] = Settle(@, "timed out")]
    /\ UNCHANGED <<transport, requestHandlers, requestId, clientCapabilities,
                   clientVersion, inflight, unhandled, received, calls, ended, sent,
                   routed>>
    /\ UNCHANGED <<stdioVars, httpVars, clientVars>>

\* The ways the handler calls of a chunk may end: Pending where none is made.
OutcomesFor(chunk) ==
    { f \in [1..Len(chunk) -> UserOutcomes \cup {Pending}] :
        \A i \in 1..Len(chunk) : ~CallsUserHandler(chunk[i]) => f[i] = Pending }

\* The chunks of frames, drawn from the messages in M, that may arrive next.
ChunksOf(M) == UNION { [1..n -> M] : n \in 1..(MaxMsgs - Len(received)) }

\* The dispatch scenario: the peer sends every kind of message.
Arrive ==
    \E chunk \in ChunksOf(Messages) :
       \E outcomes \in OutcomesFor(chunk) : Deliver(chunk, outcomes)
Register == \E method \in {"tools/call"} : SetRequestHandler(method)
HandlerEnds == \E c \in inflight : \E o \in UserOutcomes : Complete(c, o)

(***************************************************************************)
(* The calculator tool (src/src/mcp-server-with-tools.js).  A JSON value   *)
(* of the arguments is a number n, or a value that is no number; a key     *)
(* that is missing is undefined.  A quotient is kept as the pair of its    *)
(* numerator and denominator.                                              *)
(***************************************************************************)
Num(n) == [t |-> "number", n |-> n]
NotANumber == { [t |-> "string", n |-> 0], [t |-> "undefined", n |-> 0] }
Operations == {"add", "subtract", "multiply", "divide"}

NoArgs == [present |-> FALSE, operation |-> Absent, a |-> [t |-> "undefined", n |-> 0],
           b |-> [t |-> "undefined", n |-> 0]]
ToolArgs ==
    {NoArgs} \cup
    { [present |-> TRUE, operation |-> op, a |-> a, b |-> b] :
        op \in Operations \cup {"power", "", Absent},
        a \in {Num(0), Num(6)} \cup NotANumber,
        b \in {Num(0), Num(3), Num(-2)} \cup NotANumber }
ToolParams ==
    { [present |-> TRUE, name |-> n, arguments |-> args] :
        n \in {"calculator", "weather", Undefined}, args \in ToolArgs }

\* The result object of the tool: isError is Absent when the key is missing.
ToolResult(isError, say, args, value) ==
    [t |-> "object", body |-> "tool result", isError |-> isError,
     text |-> [say |-> say, operation |-> args.operation, a |-> args.a, b |-> args.b,
               value |-> value]]
NoQuotient == [num |-> 0, den |-> 1]

\* handleCalculatorTool(args), and the same code inside the tools/call
\* handler of mcp-server-with-tools.js.
HandleCalculatorTool(args) ==
    IF \/ ~args.present
       \/ args.operation \in {Absent, ""}
       \/ args.a.t # "number"
       \/ args.b.t # "number"
    THEN ToolResult("true", "Invalid arguments. Please provide operation, a, and b.",
                    NoArgs, NoQuotient)
    ELSE CASE args.operation = "add" ->
                ToolResult(Absent, "Result of", args,
                           [num |-> args.a.n + args.b.n, den |-> 1])
           [] args.operation = "subtract" ->
                ToolResult(Absent, "Result of", args,
                           [num |-> args.a.n - args.b.n, den |-> 1])
           [] args.operation = "multiply" ->
                ToolResult(Absent, "Result of", args,
                           [num |-> args.a.n * args.b.n, den |-> 1])
           [] args.operation = "divide" ->
                IF args.b.n = 0
                THEN ToolResult("true", "Cannot divide by zero", NoArgs, NoQuotient)
                ELSE ToolResult(Absent, "Result of", args,
                                [num |-> args.a.n, den |-> args.b.n])
           [] OTHER ->
                ToolResult("true", "Unsupported operation: ",
                           [NoArgs EXCEPT !.operation = args.operation], NoQuotient)

ToolsCallHandlerMutant(params) ==
    IF params.name # "calculator"
    THEN Throws("Tool " \o params.name \o " not found")
    ELSE IF HandleCalculatorTool(params.arguments).isError = "true"
    THEN Throws("Calculator error")
    ELSE Returns(HandleCalculatorTool(params.arguments))

\* The handler of tools/call: how its call ends for the params of a request.
ToolsCallHandler(params) ==
    IF params.name # "calculator"
    THEN Throws("Tool " \o params.name \o " not found")
    ELSE Returns(HandleCalculatorTool(params.arguments))

\* The calculator scenario: the peer sends tools/call requests.
ToolCall ==
    /\ Len(received) < MaxToolCalls
    /\ \E params \in ToolParams : \E id \in Ids :
          Deliver(<<Msg("2.0", id, "tools/call", "none", params)>>,
                  <<ToolsCallHandler(params)>>)

\* The handshake scenario: the peer sends, one frame at a time and in any
\* order, initialize requests, the initialized notification and requests and
\* notifications for other methods.
HandshakeMessages ==
    { Msg("2.0", "0", "initialize", "none", InitParams("2024-11-05", "capsA", "clientA")),
      Msg("2.0", "\"a\"", "initialize", "none", InitParams("2024-10-07", "capsB", "clientB")),
      Msg("2.0", Absent, "notifications/initialized", "none", NoParams),
      Msg("2.0", Absent, "tools/call", "none", NoParams),
      Msg("2.0", "0", "ping", "none", NoParams),
      Msg("2.0", "0", "tools/call", "none", NoParams) }

Greet ==
    /\ Len(received) < MaxHandshake
    /\ \E m \in HandshakeMessages :
          \E outcomes \in OutcomesFor(<<m>>) : Deliver(<<m>>, outcomes)

\* The correlator scenario: the engine issues requests, and the peer sends
\* responses, a request that reuses an id of the engine, and a malformed message.
CorrelatorMessages ==
    { Msg("2.0", i, Absent, p, NoParams) :
        i \in {"0", "1", "\"0\""}, p \in {"result", "error"} }
    \cup { Msg("2.0", "0", Absent, "error null", NoParams),
           Msg("2.0", "0", "ping", "none", NoParams),
           Msg("1.0", "0", Absent, "result", NoParams) }

PeerAnswers ==
    \E chunk \in ChunksOf(CorrelatorMessages) :
       \E outcomes \in OutcomesFor(chunk) : Deliver(chunk, outcomes)
Issue == \E params \in {JsObject("{}"), JsCircular} : Request(params)
Expire == \E id \in timers : Timeout(id)

(***************************************************************************)
(* Properties of the dispatch of inbound messages.                         *)
(***************************************************************************)
IsRequest(m) == m.jsonrpc = "2.0" /\ m.id # Absent /\ m.method # Absent
Arrived == 1..Len(received)
\* The positions in sent of the messages sent in reply to received[k].
RepliesTo(k) == { j \in 1..Len(sent) : sent[j].re = k }
Running(k) == \E c \in inflight : c.re = k
Called(k) == \E i \in 1..Len(calls) : calls[i].re = k
\* Request k arrived while its method had a handler.
Registered(k) ==
    IsRequest(received[k].msg) /\ received[k].msg.method \in received[k].handlers
Unregistered(k) ==
    IsRequest(received[k].msg) /\ received[k].msg.method \notin received[k].handlers

C2_MethodNotFound ==
    \A k \in Arrived :
        Unregistered(k) =>
            /\ Cardinality(RepliesTo(k)) = 1
            /\ \A j \in RepliesTo(k) :
                   /\ sent[j].kind = "error"
                   /\ sent[j].code = -32601
                   /\ sent[j].message = "Method not found: " \o received[k].msg.method
                   /\ sent[j].id = received[k].msg.id
            /\ ~Called(k)

\* tools/call was requested before the application registered its handler.
C2_Witness ==
    \E k \in Arrived :
        /\ Unregistered(k)
        /\ received[k].msg.method = "tools/call"
        /\ \E j \in RepliesTo(k) : sent[j].code = -32601

\* Message k was dispatched by the rules of requests.
Dispatched(k) ==
    /\ Registered(k) =>
          /\ Called(k)
          /\ (transport = "started" /\ ~Running(k)) => Cardinality(RepliesTo(k)) = 1
    /\ Unregistered(k) =>
          \E j \in RepliesTo(k) : sent[j].code = -32601

\* The reply to the failed handler call e is the one error -32603 with the
\* request's id whose message is text.
FailureReply(e, text) ==
    /\ Cardinality(RepliesTo(e.re)) = 1
    /\ \A j \in RepliesTo(e.re) :
           /\ sent[j].kind = "error"
           /\ sent[j].code = -32603
           /\ sent[j].message = text
           /\ sent[j].id = received[e.re].msg.id

C4_BadVersion ==
    \A k \in Arrived :
        received[k].msg.jsonrpc # "2.0" =>
            IF received[k].msg.id # Absent
            THEN /\ Cardinality(RepliesTo(k)) = 1
                 /\ \A j \in RepliesTo(k) : sent[j].kind = "error" /\ sent[j].code = -32600
            ELSE RepliesTo(k) = {}

\* The version an initialize request asks for.
RequestedVersion(m) ==
    IF m.params.present THEN m.params.protocolVersion ELSE Undefined

\* C5: an initialize request always gets a success reply; its protocolVersion
\* is the requested one when that is 2024-11-05 or 2024-10-07 and 2024-11-05
\* otherwise, and it carries the server's capabilities and serverInfo.
C5_Negotiation ==
    \A k \in Arrived :
        (IsRequest(received[k].msg) /\ received[k].msg.method = "initialize") =>
            /\ Cardinality(RepliesTo(k)) = 1
            /\ \A j \in RepliesTo(k) :
                   /\ sent[j].kind = "result"
                   /\ sent[j].id = received[k].msg.id
                   /\ sent[j].result.body = "initialize"
                   /\ sent[j].result.protocolVersion =
                        (IF RequestedVersion(received[k].msg) \in {"2024-11-05", "2024-10-07"}
                         THEN RequestedVersion(received[k].msg)
                         ELSE "2024-11-05")
                   /\ sent[j].result.capabilities = ServerCapabilities
                   /\ sent[j].result.serverInfo = SERVER_INFO

\* An initialize that asked for 1999-01-01 was answered with 2024-11-05.
C5_Witness ==
    \E k \in Arrived :
        /\ received[k].msg.method = "initialize"
        /\ RequestedVersion(received[k].msg) = "1999-01-01"
        /\ \E j \in RepliesTo(k) :
              sent[j].kind = "result" /\ sent[j].result.protocolVersion = "2024-11-05"

\* C7: handlers are called in the order the requests arrived, each request
\* with a handler at its arrival and whether or not an earlier call is still
\* pending, and every reply to a request carries the id of that request.
C7_ArrivalOrder ==
    /\ \A i, j \in 1..Len(calls) : i < j => calls[i].re < calls[j].re
    /\ \A k \in Arrived : Registered(k) <=> Called(k)
    /\ \A j \in 1..Len(sent) :
           (sent[j].re \in Arrived /\ IsRequest(received[sent[j].re].msg)) =>
               sent[j].id = received[sent[j].re].msg.id

\* Two handler calls whose replies were sent in the opposite order.
C7_Witness ==
    \E i, j \in 1..Len(sent) :
        /\ i < j
        /\ sent[i].re > sent[j].re
        /\ Called(sent[i].re) /\ Called(sent[j].re)
        /\ sent[i].id # sent[j].id

IsNotification(m) == m.jsonrpc = "2.0" /\ m.id = Absent /\ m.method # Absent

KindOf(m) ==
    IF m.method # Absent /\ m.id # Absent THEN "request"
    ELSE IF m.method # Absent THEN "notification"
    ELSE IF m.id # Absent /\ m.payload # "none" THEN "response"
    ELSE "invalid"

\* The positions in routed of the branches message k took.
PathsOf(k) == { i \in 1..Len(routed) : routed[i].re = k }

\* C21: every message with jsonrpc "2.0" takes exactly one branch, the one of
\* its kind: request (method and id), notification (method, no id), response
\* (id with result or error, no method) or invalid (anything else); only a
\* request calls a handler; an invalid message with an id gets exactly one
\* reply, the error -32600 with that id, and one without an id gets nothing.
C21_Classification ==
    \A k \in Arrived :
        received[k].msg.jsonrpc = "2.0" =>
            LET m == received[k].msg
            IN  /\ Cardinality(PathsOf(k)) = 1
                /\ \A i \in PathsOf(k) : routed[i].path = KindOf(m)
                /\ KindOf(m) # "request" => ~Called(k)
                /\ (KindOf(m) = "invalid" /\ m.id # Absent) =>
                       /\ Cardinality(RepliesTo(k)) = 1
                       /\ \A j \in RepliesTo(k) :
                              /\ sent[j].kind = "error"
                              /\ sent[j].code = -32600
                              /\ sent[j].id = m.id
                /\ (KindOf(m) = "invalid" /\ m.id = Absent) => RepliesTo(k) = {}

\* A message with an id, a method and a result was taken as a request, and an
\* invalid message with an id was answered with -32600.
C21_Witness ==
    \E k, n \in Arrived :
        /\ received[k].msg.jsonrpc = "2.0"
        /\ received[k].msg.method # Absent /\ received[k].msg.payload = "result"
        /\ \E i \in PathsOf(k) : routed[i].path = "request"
        /\ received[n].msg.jsonrpc = "2.0"
        /\ KindOf(received[n].msg) = "invalid"
        /\ \E j \in RepliesTo(n) : sent[j].code = -32600 /\ sent[j].id = "0"

\* Whether the initialized notification arrived before message k.
InitializedBefore(k) ==
    \E i \in 1..(k - 1) :
        IsNotification(received[i].msg)
        /\ received[i].msg.method = "notifications/initialized"
InitializeBefore(k) ==
    \E i \in 1..(k - 1) :
        IsRequest(received[i].msg) /\ received[i].msg.method = "initialize"

\* The one reply to request k is the one a handler call that ended with
\* outcome o gets.
AnsweredAs(k, o) ==
    /\ Cardinality(RepliesTo(k)) = 1
    /\ \A j \in RepliesTo(k) :
           /\ sent[j].id = received[k].msg.id
           /\ IF o.t = "return" /\ o.value.t # "circular"
              THEN /\ sent[j].kind = (IF o.value.t = "undefined" THEN "none" ELSE "result")
                   /\ sent[j].result = o.value
              ELSE /\ sent[j].kind = "error"
                   /\ sent[j].code = -32603
                   /\ sent[j].message =
                        (IF o.t = "return" THEN SerializeErrorText
                         ELSE IF o.message = "" THEN "Internal error" ELSE o.message)

\* C22: a request for a method with a handler is dispatched to the handler
\* and gets the reply its handler's outcome determines, the same whether it
\* arrives before any initialize request, between initialize and the
\* initialized notification, or after the handshake.
C22_HandshakeAdvisory ==
    \A k \in Arrived :
        (Registered(k) /\ received[k].msg.method # "initialize") =>
            /\ Called(k)
            /\ ~Running(k) => \E e \in ended : e.re = k
            /\ \A e \in ended : e.re = k => AnsweredAs(k, e.outcome)
            /\ received[k].msg.method = "ping" =>
                   \E e \in ended : e.re = k /\ e.outcome = Returns(JsObject("{}"))

\* A ping was answered before any initialize request, and a tools/call
\* between an initialize request and the initialized notification.
C22_Witness ==
    \E k, n \in Arrived :
        /\ k < n
        /\ Registered(k) /\ received[k].msg.method = "ping"
        /\ ~InitializeBefore(k)
        /\ \E j \in RepliesTo(k) : sent[j].kind = "result"
        /\ Registered(n) /\ received[n].msg.method = "tools/call"
        /\ InitializeBefore(n) /\ ~InitializedBefore(n)
        /\ \E j \in RepliesTo(n) : sent[j].kind = "result"

\* The first initialize request that arrived, 0 when there is none.
FirstInitialize ==
    LET I == { k \in Arrived :
                 IsRequest(received[k].msg) /\ received[k].msg.method = "initialize" }
    IN  IF I = {} THEN 0 ELSE CHOOSE k \in I : \A i \in I : k <= i

\* C23: the client capabilities and client info the engine holds are those of
\* the first initialize request, whatever arrived after it.
C23_NegotiatedStateFixed ==
    FirstInitialize # 0 =>
        LET p == ParamsOrEmpty(received[FirstInitialize].msg.params)
        IN  /\ clientCapabilities = p.capabilities
            /\ clientVersion = p.clientInfo

\* C24: a notification other than notifications/initialized is delivered to
\* the handler of its method when the method has one, and is discarded
\* without a reply when it has none.
C24_NotificationDelivered ==
    \A k \in Arrived :
        (IsNotification(received[k].msg)
         /\ received[k].msg.method # "notifications/initialized") =>
            IF received[k].msg.method \in received[k].handlers
            THEN Called(k)
            ELSE ~Called(k) /\ RepliesTo(k) = {}

\* C25: every handler call for a request that has ended has exactly one
\* reply with the request's id, an error reply when the handler threw or its
\* result cannot be serialized or the send of the result failed, and no
\* rejection is left unhandled, the transport being closed or not.
C25_ErrorsAnswered ==
    /\ unhandled = 0
    /\ \A e \in ended :
           /\ Cardinality(RepliesTo(e.re)) = 1
           /\ \A j \in RepliesTo(e.re) :
                  /\ sent[j].id = received[e.re].msg.id
                  /\ (e.outcome.t = "throw" \/ e.outcome.value.t = "circular") =>
                         sent[j].kind = "error"

\* C37: every message sent in reply to an inbound message has jsonrpc "2.0",
\* the id of the message it answers when that has one, and exactly one of
\* result and error, whatever the handler returned.
C37_WellFormedReplies ==
    \A j \in 1..Len(sent) :
        sent[j].re \in Arrived =>
            /\ sent[j].jsonrpc = "2.0"
            /\ received[sent[j].re].msg.id # Absent =>
                   sent[j].id = received[sent[j].re].msg.id
            /\ sent[j].kind \in {"result", "error"}

\* The arguments the calculator computes a result for.
ValidArgs(args) ==
    /\ args.present
    /\ args.operation \in {"add", "subtract", "multiply", "divide"}
    /\ args.a.t = "number" /\ args.b.t = "number"
    /\ ~(args.operation = "divide" /\ args.b.n = 0)

\* C28: a tools/call request for the calculator gets exactly one reply, a
\* result and never an error: with isError true and a text that says why for
\* a division by zero, an unsupported operation and missing or wrongly typed
\* arguments, and without isError for valid arguments; a tools/call for any
\* other tool gets the error -32603.
C28_CalculatorResults ==
    \A k \in Arrived :
        (Registered(k) /\ received[k].msg.method = "tools/call") =>
            LET params == received[k].msg.params
                args == params.arguments
            IN  /\ Cardinality(RepliesTo(k)) = 1
                /\ \A j \in RepliesTo(k) :
                       /\ sent[j].id = received[k].msg.id
                       /\ IF params.name = "calculator"
                          THEN /\ sent[j].kind = "result"
                               /\ IF ValidArgs(args)
                                  THEN /\ sent[j].result.isError = Absent
                                       /\ sent[j].result.text.say = "Result of"
                                  ELSE /\ sent[j].result.isError = "true"
                                       /\ sent[j].result.text.say \in
                                            {"Cannot divide by zero",
                                             "Unsupported operation: ",
                                             "Invalid arguments. Please provide operation, a, and b."}
                               /\ (args.present /\ args.operation = "divide"
                                   /\ args.a.t = "number" /\ args.b = Num(0)) =>
                                      sent[j].result.text.say = "Cannot divide by zero"
                          ELSE /\ sent[j].kind = "error"
                               /\ sent[j].code = -32603

\* A division by zero was answered with a result whose isError is true.
C28_Witness ==
    \E k \in Arrived :
        /\ Registered(k)
        /\ received[k].msg.method = "tools/call"
        /\ received[k].msg.params.name = "calculator"
        /\ received[k].msg.params.arguments.operation = "divide"
        /\ received[k].msg.params.arguments.a = Num(6)
        /\ received[k].msg.params.arguments.b = Num(0)
        /\ \E j \in RepliesTo(k) :
              sent[j].kind = "result" /\ sent[j].result.isError = "true"

(***************************************************************************)
(* The line-framed transport.  A text is a sequence of characters.  The    *)
(* input alphabet is enough for JSON documents: the number 1...1, arrays   *)
(* of one or no element, spaces.                                           *)
(***************************************************************************)
LF == "\n"
Chars == {"1", "[", "]", " ", LF}

\* The index of the first character of s at or after i that is no space.
RECURSIVE SkipWs(_, _)
SkipWs(s, i) == IF i <= Len(s) /\ s[i] = " " THEN SkipWs(s, i + 1) ELSE i

\* The index after the digits of s that start at i.
RECURSIVE SkipDigits(_, _)
SkipDigits(s, i) == IF i <= Len(s) /\ s[i] = "1" THEN SkipDigits(s, i + 1) ELSE i

NoValue == [t |-> "none"]
ParseFail == [ok |-> FALSE, val |-> NoValue, next |-> 0]

\* The JSON value of s that starts at i, and the index after it.
RECURSIVE ParseValue(_, _)
ParseValue(s, i) ==
    IF i > Len(s) THEN ParseFail
    ELSE IF s[i] = "1"
    THEN [ok |-> TRUE, val |-> [t |-> "number", digits |-> SkipDigits(s, i) - i],
          next |-> SkipDigits(s, i)]
    ELSE IF s[i] = "["
    THEN LET j == SkipWs(s, i + 1)
         IN  IF j <= Len(s) /\ s[j] = "]"
             THEN [ok |-> TRUE, val |-> [t |-> "array", items |-> <<>>], next |-> j + 1]
             ELSE LET inner == ParseValue(s, j)
                      k == SkipWs(s, inner.next)
                  IN  IF inner.ok /\ k <= Len(s) /\ s[k] = "]"
                      THEN [ok |-> TRUE, val |-> [t |-> "array", items |-> <<inner.val>>],
                            next |-> k + 1]
                      ELSE ParseFail
    ELSE ParseFail

\* JSON.parse(line): one value, with spaces around it, and nothing else.
JsonParse(line) ==
    LET r == ParseValue(line, SkipWs(line, 1))
    IN  IF r.ok /\ SkipWs(line, r.next) > Len(line) THEN r ELSE ParseFail

\* !line.trim()
Blank(line) == \A i \in 1..Len(line) : line[i] = " "

\* text.split('\n'): the segments between the line breaks, at least one.
RECURSIVE Split(_, _, _)
Split(text, i, segment) ==
    IF i > Len(text) THEN <<segment>>
    ELSE IF text[i] = LF THEN <<segment>> \o Split(text, i + 1, <<>>)
    ELSE Split(text, i + 1, Append(segment, text[i]))

RemainderMutant(lines) == <<>>

\* lines.pop() || '': the fragment after the last line break.
Remainder(lines) == lines[Len(lines)]

MessageEvent(value, line, carried) ==
    [t |-> "message", value |-> value, line |-> line, carried |-> carried]
ErrorEvent(line, carried) ==
    [t |-> "error", value |-> NoValue, line |-> line, carried |-> carried]

\* The body of the loop of _onData for one line.  carried is history: the
\* line began in an earlier chunk.
LineEvents(line, carried) ==
    IF Blank(line) THEN <<>>
    ELSE IF JsonParse(line).ok
    THEN <<MessageEvent(JsonParse(line).val, line, carried)>>
    ELSE <<ErrorEvent(line, carried)>>

RECURSIVE ProcessLinesMutant(_, _, _)
ProcessLinesMutant(lines, i, carried) ==
    IF i >= Len(lines) THEN <<>>
    ELSE IF ~Blank(lines[i]) /\ ~JsonParse(lines[i]).ok
    THEN LineEvents(lines[i], carried /\ i = 1)
    ELSE LineEvents(lines[i], carried /\ i = 1)
         \o ProcessLinesMutant(lines, i + 1, carried)

\* The loop of _onData over the complete lines, all of lines but the last.
RECURSIVE ProcessLines(_, _, _)
ProcessLines(lines, i, carried) ==
    IF i >= Len(lines) THEN <<>>
    ELSE LineEvents(lines[i], carried /\ i = 1) \o ProcessLines(lines, i + 1, carried)

\* _onData(chunk) on the buffer buf: the events it raises and the buffer it leaves.
OnDataResult(buf, chunk) ==
    LET lines == Split(buf \o chunk, 1, <<>>)
    IN  [events |-> ProcessLines(lines, 1, buf # <<>>), buffer |-> Remainder(lines)]

(***************************************************************************)
(* send(message).  A message to send is a JavaScript value: a string of    *)
(* characters, an array of one string, undefined, or an object that        *)
(* refers to itself.                                                       *)
(***************************************************************************)
Texts == { <<>>, <<"a">>, <<LF>>, <<"a", LF>>, <<LF, "a">>, <<LF, LF>> }
SendValues ==
    { [t |-> "string", text |-> x] : x \in Texts }
    \cup { [t |-> "array", text |-> x] : x \in Texts }
    \cup { [t |-> "undefined", text |-> <<>>], [t |-> "circular", text |-> <<>>] }

\* JSON.stringify of the characters of a string: a line break becomes \n.
RECURSIVE Escape(_)
Escape(text) ==
    IF text = <<>> THEN <<>>
    ELSE (IF Head(text) = LF THEN <<"\\", "n">> ELSE <<Head(text)>>) \o Escape(Tail(text))

\* JSON.stringify(message): the text, undefined, or an exception.
JsonStringify(v) ==
    CASE v.t = "string" -> [t |-> "text", text |-> <<"\"">> \o Escape(v.text) \o <<"\"">>]
      [] v.t = "array" ->
            [t |-> "text", text |-> <<"[", "\"">> \o Escape(v.text) \o <<"\"", "]">>]
      [] v.t = "undefined" -> [t |-> "undefined", text |-> <<>>]
      [] OTHER -> [t |-> "throws", text |-> <<>>]

\* messageStr.includes('\n')
HasLineBreak(text) == \E i \in 1..Len(text) : text[i] = LF

FrameMutant(text) == text

\* messageStr + '\n'
Frame(text) == text \o <<LF>>

SendEntryMutant(v, text, outcome, wrote) ==
    [message |-> v, text |-> text, wrote |-> wrote,
     outcome |-> IF outcome = "awaits drain" THEN "resolved" ELSE outcome]

SendEntry(v, text, outcome, wrote) ==
    [message |-> v, text |-> text, outcome |-> outcome, wrote |-> wrote]

\* send(message) when the sink answers write() with sink: "accepted" (true),
\* "full" (false) or "throws".  The entry says how the call ended and how
\* many characters it wrote.
SendResult(v, sink) ==
    LET str == JsonStringify(v)
    IN  IF ~started THEN SendEntry(v, <<>>, "not started", 0)
        ELSE IF str.t = "throws" THEN SendEntry(v, <<>>, "stringify threw", 0)
        ELSE IF str.t = "undefined" THEN SendEntry(v, <<>>, "type error", 0)
        ELSE IF HasLineBreak(str.text) THEN SendEntry(v, str.text, "newline rejected", 0)
        ELSE IF sink = "throws" THEN SendEntry(v, str.text, "write threw", 0)
        ELSE SendEntry(v, str.text,
                       IF sink = "accepted" THEN "resolved" ELSE "awaits drain",
                       Len(Frame(str.text)))

\* The fields of a new transport.
StdioFresh ==
    /\ pos = 0 /\ buffer = <<>> /\ events = <<>>
    /\ started = FALSE /\ stdout = <<>> /\ sendLog = <<>>
    /\ listeners = 0 /\ stdioLog = <<>>
    /\ writes = <<>> /\ waiting = {} /\ settled = <<>> /\ drained = 0
    /\ stderr = <<>>

StdioIdle ==
    /\ stream = <<>>
    /\ StdioFresh

Streams == UNION { [1..n -> Chars] : n \in 0..MaxStream }

\* A new transport, and the characters its input will deliver.
StdioInit ==
    /\ stream \in Streams
    /\ StdioFresh

\* A line of diagnostic text: who wrote it, what it says, and the input line
\* it quotes.
Line(by, text, line) == [by |-> by, text |-> text, line |-> line]

\* The two output streams of the process.
Streams2 == [out |-> stdout, err |-> stderr]

DiagnoseMutant(io, lines) == [io EXCEPT !.out = @ \o lines]

\* this._stderr.write(...) and console.error(...): the lines go to stderr.
Diagnose(io, lines) == [io EXCEPT !.err = @ \o lines]

Emit(io) == stdout' = io.out /\ stderr' = io.err

\* The lines _onData and the callbacks McpServer.connect installed log for
\* the events of one chunk, from event i.
RECURSIVE EventLines(_, _)
EventLines(evs, i) ==
    IF i > Len(evs) THEN <<>>
    ELSE (IF evs[i].t = "message"
          THEN <<Line("StdioTransport", "Received message", evs[i].line),
                 Line("McpServer", "Received message", evs[i].line)>>
          ELSE <<Line("StdioTransport", "Failed to parse JSON", evs[i].line),
                 Line("McpServer", "Transport error", evs[i].line)>>)
         \o EventLines(evs, i + 1)

\* start(): it throws when the transport is started, and else sets the flag
\* and attaches the listeners, in one synchronous run.
StdioStart ==
    /\ Len(stdioLog) < MaxCalls
    /\ IF started
       THEN /\ stdioLog' = Append(stdioLog, "start threw")
            /\ UNCHANGED <<started, listeners, stdout, stderr>>
       ELSE /\ started' = TRUE
            /\ listeners' = listeners + 1
            /\ stdioLog' = Append(stdioLog, "start resolved")
            /\ Emit(Diagnose(Streams2, <<Line("StdioTransport", "Started listening for messages", <<>>)>>))
    /\ UNCHANGED <<stream, pos, buffer, events, sendLog, writes, waiting, settled,
                   drained>>
    /\ UNCHANGED <<engineVars, httpVars, clientVars>>

StdioCloseMutant ==
    /\ Len(stdioLog) < MaxCalls
    /\ IF ~started
       THEN /\ stdioLog' = Append(stdioLog, "close returned")
            /\ Emit(Diagnose(Streams2, <<Line("StdioTransport", "Already closed", <<>>)>>))
            /\ UNCHANGED <<started, listeners>>
       ELSE /\ started' = FALSE
            /\ listeners' = listeners
            /\ stdioLog' = stdioLog \o <<"onclose", "close resolved">>
            /\ Emit(Diagnose(Streams2, <<Line("McpServer", "Connection closed", <<>>),
                                         Line("StdioTransport", "Closed", <<>>)>>))
    /\ UNCHANGED <<stream, pos, buffer, events, sendLog, writes, waiting, settled,
                   drained>>
    /\ UNCHANGED <<engineVars, httpVars, clientVars>>

\* close(): it returns at once when the transport is not started, and else
\* detaches the listeners, clears the flag and calls onclose.
StdioClose ==
    /\ Len(stdioLog) < MaxCalls
    /\ IF ~started
       THEN /\ stdioLog' = Append(stdioLog, "close returned")
            /\ Emit(Diagnose(Streams2, <<Line("StdioTransport", "Already closed", <<>>)>>))
            /\ UNCHANGED <<started, listeners>>
       ELSE /\ started' = FALSE
            /\ listeners' = listeners - 1
            /\ stdioLog' = stdioLog \o <<"onclose", "close resolved">>
            /\ Emit(Diagnose(Streams2, <<Line("McpServer", "Connection closed", <<>>),
                                         Line("StdioTransport", "Closed", <<>>)>>))
    /\ UNCHANGED <<stream, pos, buffer, events, sendLog, writes, waiting, settled,
                   drained>>
    /\ UNCHANGED <<engineVars, httpVars, clientVars>>

\* start() on a transport that is not started.
Start ==
    /\ ~started
    /\ StdioStart

\* The 'data' listener, while it is attached, runs on the next n characters
\* of the input.
OnData(n) ==
    /\ listeners > 0
    /\ pos + n <= Len(stream)
    /\ LET r == OnDataResult(buffer, SubSeq(stream, pos + 1, pos + n))
       IN  /\ events' = events \o r.events
           /\ buffer' = r.buffer
           /\ Emit(Diagnose(Streams2, EventLines(r.events, 1)))
    /\ pos' = pos + n
    /\ UNCHANGED <<stream, started, sendLog, listeners, stdioLog, writes, waiting,
                   settled, drained>>
    /\ UNCHANGED <<engineVars, httpVars, clientVars>>

\* send(message): the promise settles in the call, or waits for 'drain'
\* when write() answered false.
Send(v, sink) ==
    /\ Len(sendLog) < MaxSends
    /\ LET r == SendResult(v, sink)
           i == Len(sendLog) + 1
       IN  /\ sendLog' = Append(sendLog, r)
           /\ stdout' = IF r.wrote > 0 THEN stdout \o Frame(r.text) ELSE stdout
           /\ writes' = IF r.outcome \in {"resolved", "awaits drain", "write threw"}
                         THEN Append(writes, [send |-> i, answer |-> sink])
                         ELSE writes
           /\ waiting' = IF r.outcome = "awaits drain" THEN waiting \cup {i} ELSE waiting
           /\ settled' = IF r.outcome = "awaits drain" THEN settled
                          ELSE Append(settled,
                                      [send |-> i,
                                       how |-> IF r.outcome = "resolved"
                                               THEN "write" ELSE "reject"])
    /\ UNCHANGED <<stream, pos, buffer, events, started, listeners, stdioLog,
                   drained, stderr>>
    /\ UNCHANGED <<engineVars, httpVars, clientVars>>

\* The sends of W in the order they were made.
RECURSIVE InOrder(_)
InOrder(W) ==
    IF W = {} THEN <<>>
    ELSE LET i == CHOOSE x \in W : \A y \in W : x <= y
         IN  <<i>> \o InOrder(W \ {i})

\* The sink emits 'drain': the once('drain', resolve) listeners run, in the
\* order they were attached.
SinkDrains ==
    /\ waiting # {}
    /\ drained' = drained + 1
    /\ settled' = settled \o [n \in 1..Cardinality(waiting) |->
                                 [send |-> InOrder(waiting)[n], how |-> "drain"]]
    /\ waiting' = {}
    /\ UNCHANGED <<stream, pos, buffer, events, started, stdout, sendLog, listeners,
                   stdioLog, writes, stderr>>
    /\ UNCHANGED <<engineVars, httpVars, clientVars>>

Read == \E n \in 1..MaxStream : OnData(n)

\* The events of a chunk when onmessage is a consumer that returns or throws:
\* what it throws is caught by the try block around JSON.parse and reported
\* as a parse failure of the same line.
RECURSIVE Consumed(_, _, _)
Consumed(evs, consumer, i) ==
    IF i > Len(evs) THEN <<>>
    ELSE (IF evs[i].t = "message" /\ consumer = "throws"
          THEN <<evs[i], ErrorEvent(evs[i].line, evs[i].carried)>>
          ELSE <<evs[i]>>)
         \o Consumed(evs, consumer, i + 1)

\* The 'data' listener with such a consumer.
OnDataConsumer(n, consumer) ==
    /\ listeners > 0
    /\ pos + n <= Len(stream)
    /\ LET r == OnDataResult(buffer, SubSeq(stream, pos + 1, pos + n))
           evs == Consumed(r.events, consumer, 1)
       IN  /\ events' = events \o evs
           /\ buffer' = r.buffer
           /\ Emit(Diagnose(Streams2, EventLines(evs, 1)))
    /\ pos' = pos + n
    /\ UNCHANGED <<stream, started, sendLog, listeners, stdioLog, writes, waiting,
                   settled, drained>>
    /\ UNCHANGED <<engineVars, httpVars, clientVars>>

ReadConsumer ==
    \E n \in 1..MaxStream : \E consumer \in {"returns", "throws"} :
        OnDataConsumer(n, consumer)

\* The whole transport: input lines that parse, that do not, and a line that
\* never ends, and a few messages to send.
DiagStreams ==
    { <<"1", LF>>, <<"]", LF>>, <<"1", LF, "]", LF>>, <<" ", LF, "1">> }
DiagValues ==
    { [t |-> "string", text |-> <<"a">>], [t |-> "string", text |-> <<LF>>],
      [t |-> "array", text |-> <<"a", LF>>], [t |-> "undefined", text |-> <<>>] }
StdioWhole ==
    /\ stream \in DiagStreams
    /\ StdioFresh
Respond ==
    \E v \in DiagValues : \E sink \in {"accepted", "full", "throws"} : Send(v, sink)
Write == \E v \in SendValues : \E sink \in {"accepted", "full", "throws"} : Send(v, sink)

(***************************************************************************)
(* The session-multiplexed transport (HttpSseTransport) under the example  *)
(* server.  A session id and an address are texts; the empty text stands   *)
(* for a query parameter or header that is missing or empty, which the     *)
(* code treats alike.                                                      *)
(***************************************************************************)
EndpointPath == <<"/", "s", "s", "e">>
SessionParam == <<"?", "s", "e", "s", "s", "i", "o", "n", "I", "d", "=">>

\* encodeURI on one character: a space is escaped; a letter, a digit and the
\* reserved characters / ? = & are not.
EncodeChar(c) == IF c = " " THEN <<"%", "2", "0">> ELSE <<c>>

RECURSIVE EncodeURI(_)
EncodeURI(text) ==
    IF text = <<>> THEN <<>> ELSE EncodeChar(Head(text)) \o EncodeURI(Tail(text))

\* `${this.options.endpoint}?sessionId=${sessionId}`
EndpointUrl(sid) == EndpointPath \o SessionParam \o sid

\* The value of a query parameter ends at the next &.
RECURSIVE UntilAmp(_)
UntilAmp(text) ==
    IF text = <<>> \/ Head(text) = "&" THEN <<>>
    ELSE <<Head(text)>> \o UntilAmp(Tail(text))

\* Percent-decoding of the escapes %20 and %26.
RECURSIVE PercentDecode(_)
PercentDecode(text) ==
    IF text = <<>> THEN <<>>
    ELSE IF Len(text) >= 3 /\ text[1] = "%" /\ text[2] = "2" /\ text[3] \in {"0", "6"}
    THEN <<IF text[3] = "0" THEN " " ELSE "&">> \o PercentDecode(SubSeq(text, 4, Len(text)))
    ELSE <<Head(text)>> \o PercentDecode(Tail(text))

\* req.query.sessionId of a request to the address url.
QuerySessionId(url) ==
    LET n == Len(EndpointPath) + Len(SessionParam)
    IN  IF Len(url) > n /\ SubSeq(url, 1, n) = EndpointPath \o SessionParam
        THEN PercentDecode(UntilAmp(SubSeq(url, n + 1, Len(url))))
        ELSE <<>>

\* uuidv4(): the n-th id it generates.
Uuid(n) == <<"u", ToString(n)>>

\* The addresses clients subscribe to and submit to, and the X-Session-ID
\* headers they send.
SubscribeUrls ==
    { EndpointPath,
      EndpointUrl(<<"a">>),
      EndpointUrl(<<"a", "%", "2", "6", "b">>),
      EndpointUrl(<<"a", "%", "2", "0", "b">>) }
SubmitUrls == { EndpointPath, EndpointUrl(<<"a">>) }
SessionHeaders == { <<>>, Uuid(1) }

\* A POST without a body: req.body has no jsonrpc member.
NoBody == Msg(Absent, Absent, Absent, "none", NoParams)

\* The bodies clients submit: requests with id 1 and id 0, a notification
\* and a body that is not JSON-RPC 2.0.
SubmitBodies ==
    { Msg("2.0", "1", "ping", "none", NoParams),
      Msg("2.0", "0", "nope", "none", NoParams),
      Msg("2.0", Absent, "notifications/initialized", "none", NoParams),
      Msg("1.0", "1", "ping", "none", NoParams) }

\* The bodies the clients of the example server submit: ping with id 1 and
\* with id 0, a body that is not JSON-RPC 2.0 and no body at all.
ExampleBodies ==
    { Msg("2.0", "1", "ping", "none", NoParams),
      Msg("2.0", "0", "ping", "none", NoParams),
      Msg("1.0", "1", "ping", "none", NoParams),
      NoBody }

\* How a write on a channel may end.
WriteOutcomes == {"written", "ERR_STREAM_WRITE_AFTER_END", "ERR_OTHER"}

HttpNotStartedText == "HttpSseTransport not started"
NoSessionText == "No session ID provided"
SessionNotFoundText == "Session not found"

\* this._sessions = {}
NoSessions == [x \in {} |-> 0]

HttpState == [sessions |-> sessions, channels |-> channels, hlog |-> hlog]

Log(H, e) == [H EXCEPT !.hlog = Append(@, e)]

\* How many entries of kind t the history has.
Count(t) == Cardinality({ i \in DOMAIN hlog : hlog[i].t = t })

RemoveSessionMutant(S, sid) == S

\* delete this._sessions[sessionId]
RemoveSession(S, sid) == [x \in DOMAIN S \ {sid} |-> S[x]]

\* this._sessions[sessionId] = { res, ... }
StoreSession(S, sid, ch) ==
    [x \in DOMAIN S \cup {sid} |-> IF x = sid THEN ch ELSE S[x]]

\* send(message, sessionId), on a channel whose write ends as w: the frame is
\* written, or the call throws err.
HttpSendResult(H, obj, sid, w) ==
    IF ~hStarted THEN [ok |-> FALSE, err |-> HttpNotStartedText, H |-> H]
    ELSE IF sid = <<>> THEN [ok |-> FALSE, err |-> NoSessionText, H |-> H]
    ELSE IF sid \notin DOMAIN H.sessions
    THEN [ok |-> FALSE, err |-> SessionNotFoundText, H |-> H]
    ELSE IF ~Serializable(obj)
    THEN [ok |-> FALSE, err |-> SerializeErrorText, H |-> H]
    ELSE IF w = "written"
    THEN [ok |-> TRUE, err |-> "",
          H |-> Log(H, [t |-> "frame", ch |-> H.sessions[sid], event |-> "message",
                        data |-> Stringify(obj), re |-> obj.re])]
    ELSE IF w = "ERR_STREAM_WRITE_AFTER_END"
    THEN [ok |-> FALSE, err |-> w,
          H |-> [H EXCEPT !.sessions = RemoveSession(@, sid)]]
    ELSE [ok |-> FALSE, err |-> w, H |-> H]

\* request.id as a condition: 0, null, the empty string and a missing id
\* are falsy.
Truthy(id) == id \notin {Absent, "0", "null", "\"\""}

\* transport.send(message) as McpServer calls it: with no session id.
EngineSend(H, obj) == HttpSendResult(H, obj, <<>>, "written")

\* McpServer._handleRequest over this transport, for the built-in handlers:
\* whether the promise it returns rejects, and with which error.
OriginalHandleRequest(H, m, k) ==
    IF m.method \notin {"initialize", "ping"}
    THEN LET r == EngineSend(H, ErrorObj(m.id, -32601, MethodNotFoundText(m.method), k))
         IN  [H |-> r.H, rejected |-> ~r.ok, err |-> r.err]
    ELSE LET result == IF m.method = "ping" THEN JsObject("{}")
                       ELSE InitializeResult(ParamsOrEmpty(m.params))
             r == EngineSend(H, ResponseObj(m.id, result, k))
             e == EngineSend(r.H, ErrorObj(m.id, -32603, ErrText(r.err), k))
         IN  IF r.ok THEN [H |-> r.H, rejected |-> FALSE, err |-> ""]
             ELSE [H |-> e.H, rejected |-> ~e.ok, err |-> e.err]

ExampleReplyMutant(H, m, k, sid, o) ==
    IF o.rejected
    THEN [H EXCEPT !.hlog = <<[t |-> "frame", ch |-> 1, event |-> "message",
                               data |-> Stringify(ErrorObj(m.id, -32603, ErrText(o.err), k)),
                               re |-> k]>> \o @]
    ELSE H

\* The wrapper the example server puts around _handleRequest: originalHandle-
\* Request resolves to undefined, so the wrapper sends only from its catch.
ExampleReply(H, m, k, sid, o) ==
    IF o.rejected /\ Truthy(m.id)
    THEN HttpSendResult(H, ErrorObj(m.id, -32603, ErrText(o.err), k), sid, "written").H
    ELSE H

\* The part of McpServer._onMessage(m) that runs before onmessage returns:
\* a request for an unregistered method and an invalid message with an id
\* call transport.send at once.
OnMessageSync(H, m, k) ==
    IF IsRequest(m) /\ m.method \notin {"initialize", "ping"}
    THEN OriginalHandleRequest(H, m, k)
    ELSE IF m.id # Absent /\ m.method = Absent /\ m.payload = "none"
    THEN LET r == EngineSend(H, ErrorObj(m.id, -32600, InvalidRequestText, k))
         IN  [H |-> r.H, rejected |-> FALSE, err |-> ""]
    ELSE [H |-> H, rejected |-> FALSE, err |-> ""]

\* The continuations that run once the POST handler has returned.
OnMessageAsync(H, m, k, sid, o) ==
    IF IsRequest(m) /\ m.method \in {"initialize", "ping"}
    THEN ExampleReply(H, m, k, sid, OriginalHandleRequest(H, m, k))
    ELSE IF IsRequest(m) THEN ExampleReply(H, m, k, sid, o)
    ELSE H

ResolveSessionMutant(token, S) ==
    IF token # <<>> THEN token
    ELSE IF DOMAIN S # {} THEN CHOOSE x \in DOMAIN S : TRUE
    ELSE <<>>

\* The session a submit is for: its token, else the only registered session,
\* else none.
ResolveSession(token, S) ==
    IF token # <<>> THEN token
    ELSE IF Cardinality(DOMAIN S) = 1 THEN CHOOSE x \in DOMAIN S : TRUE
    ELSE <<>>

ValidBodyMutant(m) == m.jsonrpc # "1.0"

\* !message || !message.jsonrpc || message.jsonrpc !== '2.0', negated.
ValidBody(m) == m.jsonrpc # Absent /\ m.jsonrpc = "2.0"

\* _handleJsonRpcRequest(req, res): k numbers the submits.
HandleJsonRpcRequest(H, url, header, m, k) ==
    LET token == IF QuerySessionId(url) # <<>> THEN QuerySessionId(url) ELSE header
        sid == ResolveSession(token, H.sessions)
        arrived == Log(H, [t |-> "submit", query |-> QuerySessionId(url),
                           header |-> header, re |-> k, valid |-> m.jsonrpc = "2.0",
                           jsonrpc |-> m.jsonrpc])
        Ack(G, status, code, body) ==
            Log(G, [t |-> "ack", status |-> status, code |-> code, body |-> body,
                    re |-> k])
    IN  IF ~ValidBody(m) THEN Ack(arrived, 400, -32600, InvalidRequestText)
        ELSE IF sid = <<>> THEN Ack(arrived, 400, -32600, NoSessionText)
        ELSE LET called == Log(arrived, [t |-> "onmessage", sid |-> sid, re |-> k,
                                         id |-> m.id, method |-> m.method,
                                         ch |-> IF sid \in DOMAIN H.sessions
                                                THEN H.sessions[sid] ELSE 0])
                 o == OnMessageSync(called, m, k)
             IN  OnMessageAsync(Ack(o.H, 202, 0, "accepted"), m, k, sid, o)

HttpCommit(H) ==
    /\ sessions' = H.sessions
    /\ channels' = H.channels
    /\ hlog' = H.hlog

Listening == \E s \in DOMAIN servers : servers[s].state = "listening"

HttpIdle ==
    /\ hStarted = FALSE /\ hServer = 0 /\ servers = <<>>
    /\ sessions = NoSessions /\ channels = <<>> /\ uuids = 0 /\ hlog = <<>>

\* A transport whose start() has resolved.
HttpRunning ==
    /\ hStarted = TRUE /\ hServer = 1
    /\ servers = <<[state |-> "listening", n |-> 1, callbacks |-> <<>>]>>
    /\ sessions = NoSessions /\ channels = <<>> /\ uuids = 0
    /\ hlog = <<[t |-> "start()", n |-> 1], [t |-> "start resolved", n |-> 1]>>

\* start(): it throws when _started is set; else it creates a server, keeps
\* it in _server and asks it to listen.  _started is set when listening.
HttpStart ==
    /\ Count("start()") < MaxStarts
    /\ LET n == Count("start()") + 1
       IN  IF hStarted
           THEN /\ hlog' = hlog \o <<[t |-> "start()", n |-> n],
                                     [t |-> "start threw", n |-> n]>>
                /\ UNCHANGED <<hServer, servers>>
           ELSE /\ servers' = Append(servers, [state |-> "binding", n |-> n,
                                               callbacks |-> <<>>])
                /\ hServer' = Len(servers) + 1
                /\ hlog' = Append(hlog, [t |-> "start()", n |-> n])
    /\ UNCHANGED <<hStarted, sessions, channels, uuids>>
    /\ UNCHANGED <<engineVars, stdioVars, clientVars>>

\* Server s of this transport binds the port, or finds it taken by another
\* server of this transport ('error' event).
HttpListen(s) ==
    /\ servers[s].state = "binding"
    /\ IF Listening
       THEN /\ servers' = [servers EXCEPT ![s].state = "failed"]
            /\ hlog' = hlog \o <<[t |-> "onerror", n |-> servers[s].n],
                                  [t |-> "start rejected", n |-> servers[s].n]>>
            /\ UNCHANGED hStarted
       ELSE /\ servers' = [servers EXCEPT ![s].state = "listening"]
            /\ hStarted' = TRUE
            /\ hlog' = Append(hlog, [t |-> "start resolved", n |-> servers[s].n])
    /\ UNCHANGED <<hServer, sessions, channels, uuids>>
    /\ UNCHANGED <<engineVars, stdioVars, clientVars>>

\* res.end() on the channel of every registered session.
EndChannels(C, S) ==
    [c \in DOMAIN C |->
        IF \E x \in DOMAIN S : S[x] = c
        THEN [C[c] EXCEPT !.state = IF @ = "open" THEN "ended" ELSE @]
        ELSE C[c]]

\* close(): it returns at once when _started is not set; else it ends and
\* forgets every session and calls close(callback) on _server.  A server
\* that is not listening gives its callback ERR_SERVER_NOT_RUNNING.
HttpClose ==
    /\ Count("close()") < MaxCloses
    /\ LET n == Count("close()") + 1
       IN  IF ~hStarted
           THEN /\ hlog' = hlog \o <<[t |-> "close()", n |-> n],
                                     [t |-> "close returned", n |-> n]>>
                /\ UNCHANGED <<servers, sessions, channels>>
           ELSE /\ channels' = EndChannels(channels, sessions)
                /\ sessions' = NoSessions
                /\ servers' =
                     [servers EXCEPT ![hServer] =
                        IF @.state = "listening"
                        THEN [@ EXCEPT !.state = "closing",
                                       !.callbacks = Append(@, [ok |-> TRUE, n |-> n])]
                        ELSE [@ EXCEPT !.callbacks = Append(@, [ok |-> FALSE, n |-> n])]]
                /\ hlog' = Append(hlog, [t |-> "close()", n |-> n])
    /\ UNCHANGED <<hStarted, hServer, uuids>>
    /\ UNCHANGED <<engineVars, stdioVars, clientVars>>

\* The callbacks of close(callback), run in order by the 'close' event.
RECURSIVE CloseCallbacks(_)
CloseCallbacks(callbacks) ==
    IF callbacks = <<>> THEN <<>>
    ELSE (IF Head(callbacks).ok
          THEN <<[t |-> "onclose", by |-> "close"],
                 [t |-> "close resolved", n |-> Head(callbacks).n]>>
          ELSE <<[t |-> "close rejected", n |-> Head(callbacks).n]>>)
         \o CloseCallbacks(Tail(callbacks))

\* Server s emits 'close'.
HttpServerClosed(s) ==
    /\ servers[s].callbacks # <<>>
    /\ servers[s].state # "binding"
    /\ servers' = [servers EXCEPT ![s].callbacks = <<>>,
                                  ![s].state = IF @ = "closing" THEN "closed" ELSE @]
    /\ hStarted' = IF \E i \in DOMAIN servers[s].callbacks : servers[s].callbacks[i].ok
                   THEN FALSE ELSE hStarted
    /\ hlog' = hlog \o CloseCallbacks(servers[s].callbacks)
    /\ UNCHANGED <<hServer, sessions, channels, uuids>>
    /\ UNCHANGED <<engineVars, stdioVars, clientVars>>

\* _handleSseConnection(req, res) for a GET of the address url.
HandleSseConnection(url) ==
    /\ Listening
    /\ Len(channels) < MaxSubs
    /\ LET supplied == QuerySessionId(url)
           sid == IF supplied # <<>> THEN supplied ELSE Uuid(uuids + 1)
           ch == Len(channels) + 1
       IN  /\ uuids' = IF supplied # <<>> THEN uuids ELSE uuids + 1
           /\ channels' = Append(channels, [sid |-> sid, supplied |-> supplied,
                                            state |-> "open"])
           /\ sessions' = StoreSession(sessions, sid, ch)
           /\ hlog' = Append(hlog, [t |-> "frame", ch |-> ch, event |-> "endpoint",
                                    address |-> EncodeURI(EndpointUrl(sid))])
    /\ UNCHANGED <<hStarted, hServer, servers>>
    /\ UNCHANGED <<engineVars, stdioVars, clientVars>>

\* The 'close' event of the request of channel ch: the client went away, or
\* the transport ended the channel.
HttpDisconnect(ch) ==
    /\ channels[ch].state \in {"open", "ended"}
    /\ channels' = [channels EXCEPT ![ch].state = "gone"]
    /\ sessions' = RemoveSession(sessions, channels[ch].sid)
    /\ hlog' = Append(hlog, [t |-> "onclose", by |-> "disconnect"])
    /\ UNCHANGED <<hStarted, hServer, servers, uuids>>
    /\ UNCHANGED <<engineVars, stdioVars, clientVars>>

\* A POST of body m to the address url with the X-Session-ID header.
HttpSubmit(url, header, m) ==
    /\ Listening
    /\ Count("submit") + Count("send") < MaxPosts
    /\ HttpCommit(HandleJsonRpcRequest(HttpState, url, header, m, Count("submit") + 1))
    /\ UNCHANGED <<hStarted, hServer, servers, uuids>>
    /\ UNCHANGED <<engineVars, stdioVars, clientVars>>

\* send(message, sessionId) called by the application; the write ends as w.
HttpSend(obj, sid, w) ==
    /\ Count("submit") + Count("send") < MaxPosts
    /\ LET r == HttpSendResult(HttpState, obj, sid, w)
       IN  HttpCommit(Log(r.H, [t |-> "send", sid |-> sid, ok |-> r.ok, err |-> r.err,
                                 w |-> IF r.ok \/ r.err = w THEN w ELSE "no write"]))
    /\ UNCHANGED <<hStarted, hServer, servers, uuids>>
    /\ UNCHANGED <<engineVars, stdioVars, clientVars>>

Subscribe == \E url \in SubscribeUrls : HandleSseConnection(url)
Opens == \E url \in {EndpointPath, EndpointUrl(<<"a">>)} : HandleSseConnection(url)
Submit ==
    \E url \in SubmitUrls : \E header \in SessionHeaders : \E m \in SubmitBodies :
        HttpSubmit(url, header, m)
Posts ==
    \E url \in SubmitUrls : \E header \in SessionHeaders : \E m \in ExampleBodies :
        HttpSubmit(url, header, m)
Disconnect == \E ch \in DOMAIN channels : HttpDisconnect(ch)
Push ==
    \E obj \in {ResponseObj("1", JsObject("tool result"), 0),
                 ResponseObj("1", JsCircular, 0)} :
       \E sid \in {<<>>, <<"a">>, Uuid(1)} : \E w \in WriteOutcomes :
          HttpSend(obj, sid, w)
HttpBinds == \E s \in DOMAIN servers : HttpListen(s)
HttpCloseEvent == \E s \in DOMAIN servers : HttpServerClosed(s)

(***************************************************************************)
(* The client of the session-multiplexed transport (McpSseClient).  A      *)
(* request() call has two promises: the one pendingRequests can settle     *)
(* (promise) and the one request() returns to its caller, which settles    *)
(* once the POST has ended.                                                *)
(***************************************************************************)
ConnectionClosedText == "Connection closed"
NotConnectedText == "Not connected"
HttpErrorText == "HTTP error"

\* The methods asked for, and what arrives on the event source: responses
\* with a result or an error, and events that are not JSON-RPC responses.
SseMethods == {"initialize", "tools/list"}
SseResponses ==
    [id : 1..MaxSseRequests, kind : {"result", "error", "connection"}]

\* connect(), up to the creation of the event source.
SseClientConnect ==
    /\ ~eventSource
    /\ eventSource' = TRUE
    /\ UNCHANGED <<nextId, pendingRequests, requests>>
    /\ UNCHANGED <<engineVars, stdioVars, httpVars, testClientVars>>

\* request(method), up to the await of the POST: it throws when there is no
\* event source and the method is not initialize.
SseClientRequest(method) ==
    /\ Len(requests) < MaxSseRequests
    /\ IF ~eventSource /\ method # "initialize"
       THEN /\ requests' = Append(requests,
                    [id |-> 0, post |-> "none", promise |-> "rejected",
                     error |-> NotConnectedText, settles |-> 0, closed |-> FALSE])
            /\ UNCHANGED <<nextId, pendingRequests>>
       ELSE /\ requests' = Append(requests,
                    [id |-> nextId, post |-> "inflight", promise |-> "pending",
                     error |-> "", settles |-> 0, closed |-> FALSE])
            /\ nextId' = nextId + 1
            /\ pendingRequests' = pendingRequests \cup {nextId}
    /\ UNCHANGED eventSource
    /\ UNCHANGED <<engineVars, stdioVars, httpVars, testClientVars>>

\* A settle call on the response promise of a request: the first one decides.
SettleRequest(r, status, text) ==
    [r EXCEPT !.promise = IF @ = "pending" THEN status ELSE @,
              !.error = IF r.promise = "pending" THEN text ELSE @,
              !.settles = @ + 1]

\* _sendRequest(request) once the POST of call n has ended: a failed POST
\* rejects and removes the entry of the request, if there is one.
SendRequestEnds(n, ok) ==
    /\ requests[n].post = "inflight"
    /\ IF ok
       THEN /\ requests' = [requests EXCEPT ![n].post = "ok"]
            /\ UNCHANGED pendingRequests
       ELSE /\ requests' =
                 [requests EXCEPT ![n] =
                    IF requests[n].id \in pendingRequests
                    THEN [SettleRequest(@, "rejected", HttpErrorText) EXCEPT !.post = "failed"]
                    ELSE [@ EXCEPT !.post = "failed"]]
            /\ pendingRequests' = pendingRequests \ {requests[n].id}
    /\ UNCHANGED <<eventSource, nextId>>
    /\ UNCHANGED <<engineVars, stdioVars, httpVars, testClientVars>>

\* _handleResponse(response), called by eventSource.onmessage.
SseHandleResponse(response) ==
    /\ eventSource
    /\ IF response.kind = "connection" \/ response.id \notin pendingRequests
       THEN UNCHANGED <<requests, pendingRequests>>
       ELSE /\ requests' =
                 [n \in DOMAIN requests |->
                    IF requests[n].id = response.id
                    THEN IF response.kind = "error"
                         THEN SettleRequest(requests[n], "rejected", "response.error.message")
                         ELSE SettleRequest(requests[n], "resolved", "")
                    ELSE requests[n]]
            /\ pendingRequests' = pendingRequests \ {response.id}
    /\ UNCHANGED <<eventSource, nextId>>
    /\ UNCHANGED <<engineVars, stdioVars, httpVars, testClientVars>>

\* The promise request() returned for call n: pending while the POST is,
\* rejected with the POST's error when it failed, else the response promise.
SseCaller(n) ==
    IF requests[n].post = "inflight" THEN [status |-> "pending", error |-> ""]
    ELSE IF requests[n].post = "failed" THEN [status |-> "rejected", error |-> HttpErrorText]
    ELSE [status |-> requests[n].promise, error |-> requests[n].error]

\* close(): the event source is closed and every entry is rejected and
\* removed.
SseClientClose ==
    /\ eventSource' = FALSE
    /\ requests' =
         [n \in DOMAIN requests |->
            LET r == [requests[n] EXCEPT
                        !.closed = @ \/ SseCaller(n).status = "pending"]
            IN  IF r.id \in pendingRequests
                THEN SettleRequest(r, "rejected", ConnectionClosedText)
                ELSE r]
    /\ pendingRequests' = {}
    /\ UNCHANGED nextId
    /\ UNCHANGED <<engineVars, stdioVars, httpVars, testClientVars>>

SseRequests == \E method \in SseMethods : SseClientRequest(method)
SsePosts == \E n \in DOMAIN requests : \E ok \in BOOLEAN : SendRequestEnds(n, ok)
SseEvents == \E response \in SseResponses : SseHandleResponse(response)

\* C36: pendingRequests holds the id of a request exactly while the caller
\* of the request is unsettled; no promise is settled twice; a caller that
\* was pending when close() ran fails with 'Connection closed'; close()
\* leaves pendingRequests empty, and a response that arrives while it is
\* empty changes nothing.
C36_PendingIsUnsettled ==
    [][ /\ \A n \in DOMAIN requests' :
              /\ requests'[n].id \in pendingRequests' <=> SseCaller(n)'.status = "pending"
              /\ requests'[n].settles <= 1
              /\ (requests'[n].closed /\ SseCaller(n)'.status # "pending") =>
                     /\ SseCaller(n)'.status = "rejected"
                     /\ SseCaller(n)'.error = ConnectionClosedText
        /\ (eventSource /\ ~eventSource') => pendingRequests' = {}
        /\ (pendingRequests = {} /\ pendingRequests' = {} /\ Len(requests') = Len(requests)
              /\ eventSource' = eventSource) =>
                 \A n \in DOMAIN requests :
                    requests'[n].promise = requests[n].promise
      ]_vars

(***************************************************************************)
(* Properties of the correlator of outbound requests.                      *)
(***************************************************************************)
\* The new messages of a step include a response with the id.
AnswerArrives(id) ==
    \E k \in (Len(received) + 1)..Len(received') :
        /\ received'[k].msg.jsonrpc = "2.0"
        /\ received'[k].msg.id = id
        /\ received'[k].msg.method = Absent
        /\ received'[k].msg.payload # "none"

\* C10: when the deadline of a request expires with no response, its entry is
\* removed and its caller fails with the timeout error; afterwards a response
\* with that id changes neither that caller nor any other pending request.
C10_DeadlineExpiry ==
    [][ /\ \A id \in timers :
              (id \notin timers' /\ received' = received) =>
                  (id \notin responseHandlers' /\ callers'[id] = "timed out")
        /\ \A id \in DOMAIN callers :
              (id \notin responseHandlers /\ AnswerArrives(id)) =>
                  /\ callers'[id] = callers[id]
                  /\ \A other \in responseHandlers :
                        ~AnswerArrives(other) =>
                            /\ other \in responseHandlers'
                            /\ callers'[other] = callers[other]
                            /\ (other \in timers <=> other \in timers')
      ]_vars

\* The step is the expiry of the deadline of request id: its timer goes
\* though no message arrived.
Expires(id) == id \in timers /\ id \notin timers' /\ received' = received

\* C26: the expiry of the deadline of a request leaves its caller failed (a
\* pending caller fails with the timeout) and removes its entry; it sends
\* nothing, and it changes no other pending entry, timer or caller, no
\* handler registration and nothing of the negotiated state.
C26_ExpiryLocal ==
    [][ \A id \in timers :
            Expires(id) =>
                /\ id \notin responseHandlers'
                /\ callers'[id] \in {"timed out", "send failed"}
                /\ callers[id] = "pending" => callers'[id] = "timed out"
                /\ sent' = sent
                /\ responseHandlers' = responseHandlers \ {id}
                /\ timers' = timers \ {id}
                /\ \A other \in DOMAIN callers \ {id} : callers'[other] = callers[other]
                /\ requestHandlers' = requestHandlers
                /\ clientCapabilities' = clientCapabilities
                /\ clientVersion' = clientVersion
                /\ transport' = transport /\ requestId' = requestId
                /\ inflight' = inflight /\ unhandled' = unhandled
      ]_vars

\* The deadline of one request expired while another request was pending.
C26_Witness ==
    \E id, other \in DOMAIN callers :
        /\ callers[id] = "timed out"
        /\ id \notin responseHandlers
        /\ other \in responseHandlers /\ other \in timers
        /\ callers[other] = "pending"
        /\ Len(sent) >= 2

\* C35: the pending map has an entry for an id, and a timer is armed for it,
\* exactly when the caller of that request is neither fulfilled nor failed;
\* so a request whose send failed has a failed caller and no entry or timer.
C35_PendingExact ==
    \A id \in DOMAIN callers :
        /\ id \in responseHandlers <=> callers[id] = "pending"
        /\ id \in timers <=> callers[id] = "pending"

\* C38: every request that was issued and is pending is settled in the end,
\* by a response, a send failure or its deadline, whether or not the peer
\* answers and whether or not the engine is closed meanwhile.
C38_EventuallySettled ==
    \A id \in {"0", "1"} :
        (id \in DOMAIN callers /\ callers[id] = "pending")
            ~> (id \in DOMAIN callers /\ callers[id] # "pending")

IsResponse(m) ==
    m.jsonrpc = "2.0" /\ m.id # Absent /\ m.method = Absent /\ m.payload # "none"
\* The positions in received' of the messages that arrive in a step.
Arriving == (Len(received) + 1)..Len(received')
\* The first response with the id among the messages that arrive in a step.
FirstAnswer(id) ==
    CHOOSE k \in Arriving :
        /\ IsResponse(received'[k].msg) /\ received'[k].msg.id = id
        /\ \A j \in Arriving :
               (IsResponse(received'[j].msg) /\ received'[j].msg.id = id) => k <= j

\* C11: a response goes to the correlator and to no handler; when an entry
\* with its id is pending, the timer is cancelled, the entry is removed and
\* the caller is fulfilled (result) or failed (error), so that a second
\* response with the id changes nothing; when no entry is pending, nothing
\* changes and nothing is sent.
C11_ResponseRouting ==
    [][ /\ \A id \in responseHandlers :
              AnswerArrives(id) =>
                  /\ id \notin responseHandlers'
                  /\ id \notin timers'
                  /\ callers'[id] =
                        IF received'[FirstAnswer(id)].msg.payload = "result"
                        THEN "fulfilled" ELSE "rejected"
        /\ \A id \in DOMAIN callers :
              (id \notin responseHandlers /\ AnswerArrives(id)) =>
                  /\ callers'[id] = callers[id]
                  /\ id \notin responseHandlers'
        /\ \A i \in (Len(calls) + 1)..Len(calls') :
              ~IsResponse(received'[calls'[i].re].msg)
        /\ \A j \in (Len(sent) + 1)..Len(sent') :
              sent'[j].re \in Arriving => ~IsResponse(received'[sent'[j].re].msg)
        /\ (\A k \in Arriving : IsResponse(received'[k].msg)) =>
              (unhandled' = unhandled /\ inflight' = inflight)
      ]_vars

IsSentRequest(obj) == obj.kind = "request"
\* The number whose JSON text is id.
IdNumber(id) == CHOOSE n \in 0..(requestId + 1) : ToString(n) = id

\* C12: the ids request() allocates grow strictly, so no two requests of one
\* engine, pending or not, share an id; and an entry is registered for the id
\* of every request on the wire until a response or the deadline removes it.
C12_IdAllocation ==
    LET reqs == SelectSeq(sent, IsSentRequest)
    IN  /\ \A i, j \in 1..Len(reqs) :
               i < j => IdNumber(reqs[i].id) < IdNumber(reqs[j].id)
        /\ DOMAIN callers = { ToString(n) : n \in 0..(requestId - 1) }
        /\ responseHandlers \subseteq DOMAIN callers
        /\ timers \subseteq DOMAIN callers
        /\ \A i \in 1..Len(reqs) :
               /\ reqs[i].id \in DOMAIN callers
               /\ (/\ callers[reqs[i].id] = "pending"
                   /\ \A k \in Arrived :
                         ~(IsResponse(received[k].msg) /\ received[k].msg.id = reqs[i].id))
                  => reqs[i].id \in responseHandlers

\* Two requests are on the wire and both are pending under their own ids.
C12_Witness ==
    /\ Len(SelectSeq(sent, IsSentRequest)) >= 2
    /\ Cardinality(responseHandlers) >= 2

(***************************************************************************)
(* Properties of the line-framed transport.                                *)
(***************************************************************************)
\* The positions of the line breaks that have arrived.
Breaks == { i \in 1..pos : stream[i] = LF }
\* The last line break before position n, or 0.
BreakBefore(n) ==
    CHOOSE b \in Breaks \cup {0} :
        b < n /\ \A c \in Breaks \cup {0} : c < n => c <= b
\* The line that the line break at n ends.
LineAt(n) == SubSeq(stream, BreakBefore(n) + 1, n - 1)
\* The line breaks that end a line with more than spaces in it.
DocBreaks == { n \in Breaks : \E i \in 1..Len(LineAt(n)) : LineAt(n)[i] # " " }
NthDoc(k) == CHOOSE n \in DocBreaks : Cardinality({ d \in DocBreaks : d < n }) = k - 1
\* The complete lines that have arrived, in stream order.
ArrivedLines ==
    [k \in 1..Cardinality(DocBreaks) |->
        [line |-> LineAt(NthDoc(k)), valid |-> JsonParse(LineAt(NthDoc(k))).ok]]
\* The characters after the last line break that has arrived.
Fragment == SubSeq(stream, BreakBefore(pos + 1) + 1, pos)
IsMessage(e) == e.t = "message"
IsValid(d) == d.valid
Plain(evs) == [i \in 1..Len(evs) |-> [t |-> evs[i].t, value |-> evs[i].value,
                                      line |-> evs[i].line]]

\* C6: however the stream is cut into chunks, the documents whose line break
\* has arrived are dispatched once each and in stream order, the events are
\* those of the same characters arriving as one chunk, and the characters
\* after the last line break wait in the buffer.
C6_Reassembly ==
    LET msgs == SelectSeq(events, IsMessage)
        docs == SelectSeq(ArrivedLines, IsValid)
        one == OnDataResult(<<>>, SubSeq(stream, 1, pos))
    IN  /\ Len(msgs) = Len(docs)
        /\ \A i \in 1..Len(msgs) :
               /\ msgs[i].line = docs[i].line
               /\ msgs[i].value = JsonParse(docs[i].line).val
        /\ Plain(events) = Plain(one.events)
        /\ buffer = Fragment
        /\ buffer = one.buffer

\* A document that arrived in two or more chunks was dispatched.
C6_Witness ==
    \E i \in 1..Len(events) :
        /\ events[i].t = "message"
        /\ events[i].carried
        /\ Len(events[i].line) >= 3

\* C9: every complete line that is not JSON raises one onerror and no
\* onmessage, and every complete line that is JSON raises one onmessage,
\* before or after a line that failed, in the same chunk or a later one.
C9_ParseErrorIsolated ==
    /\ Len(events) = Len(ArrivedLines)
    /\ \A i \in 1..Len(events) :
           /\ events[i].line = ArrivedLines[i].line
           /\ events[i].t = IF ArrivedLines[i].valid THEN "message" ELSE "error"

\* A line failed to parse and a later line was dispatched.
C9_Witness ==
    \E i, j \in 1..Len(events) :
        i < j /\ events[i].t = "error" /\ events[j].t = "message"

RECURSIVE WroteBefore(_)
WroteBefore(i) == IF i <= 1 THEN 0 ELSE WroteBefore(i - 1) + sendLog[i - 1].wrote

\* C8: a send whose serialized message has a line break fails and writes
\* nothing; a send on a started transport whose message serializes and whose
\* write does not throw writes the serialized message and one line break;
\* every other send writes nothing; so the output is the frames written,
\* one line each.
C8_FrameIntegrity ==
    /\ \A i \in 1..Len(sendLog) :
          LET e == sendLog[i]
          IN  /\ HasLineBreak(e.text) => (e.wrote = 0 /\ e.outcome = "newline rejected")
              /\ e.outcome \in {"resolved", "awaits drain"} =>
                    /\ e.wrote = Len(e.text) + 1
                    /\ SubSeq(stdout, WroteBefore(i) + 1, WroteBefore(i) + e.wrote)
                         = e.text \o <<"\n">>
              /\ e.outcome \notin {"resolved", "awaits drain"} => e.wrote = 0
              /\ e.outcome \in {"resolved", "awaits drain", "newline rejected",
                                "write threw"}
                    <=> (e.message.t \in {"string", "array"} /\ e.outcome # "not started")
    /\ Len(stdout) = WroteBefore(Len(sendLog) + 1)
    /\ Cardinality({ i \in 1..Len(stdout) : stdout[i] = "\n" })
         = Cardinality({ i \in 1..Len(sendLog) : sendLog[i].wrote > 0 })
    /\ stdout # <<>> => stdout[Len(stdout)] = "\n"

\* A message with a line break inside a string was written as one frame, and
\* a second frame after it.
C8_Witness ==
    /\ Len(sendLog) >= 2
    /\ \E i \in 1..Len(sendLog) :
          /\ \E c \in 1..Len(sendLog[i].message.text) : sendLog[i].message.text[c] = "\n"
          /\ sendLog[i].wrote > 0
    /\ \A i \in 1..Len(sendLog) : sendLog[i].wrote > 0

(***************************************************************************)
(* Properties of the session-multiplexed transport.                        *)
(***************************************************************************)
\* The entries the history gains in a step.
NewEntries == SubSeq(hlog', Len(hlog) + 1, Len(hlog'))
Subscribed == Len(channels') > Len(channels)
Submitted == Len(hlog') > Len(hlog) /\ NewEntries[1].t = "submit"
SendCalled == Len(hlog') > Len(hlog) /\ hlog'[Len(hlog')].t = "send"
\* The onmessage calls and the acknowledgments among the new entries.
NewCalls == { i \in DOMAIN NewEntries : NewEntries[i].t = "onmessage" }
NewAcks == { i \in DOMAIN NewEntries : NewEntries[i].t = "ack" }

\* C13: a subscribe registers its channel under the session id the caller
\* supplied, or under a generated id no other channel has; the first frame of
\* the channel is an endpoint frame, and the address in it is the submission
\* address of that session: a submit to it carries that session id.
C13_Subscribe ==
    [][ Subscribed =>
          LET ch == Len(channels')
              c == channels'[ch]
              e == hlog'[Len(hlog')]
          IN  /\ c.sid \in DOMAIN sessions' /\ sessions'[c.sid] = ch
              /\ c.supplied # <<>> => c.sid = c.supplied
              /\ c.supplied = <<>> =>
                    \A other \in DOMAIN channels : channels[other].sid # c.sid
              /\ Len(hlog') = Len(hlog) + 1
              /\ e.t = "frame" /\ e.ch = ch /\ e.event = "endpoint"
              /\ QuerySessionId(e.address) = c.sid
      ]_vars

\* C14: a valid submit with no session id in query and header goes to the
\* only registered session when there is exactly one, and is else rejected
\* with 'No session ID provided' and not passed to onmessage; a submit with
\* a session id is passed to onmessage with that id.
C14_SubmitRouting ==
    [][ (Submitted /\ NewEntries[1].valid) =>
          LET s == NewEntries[1]
              carried == IF s.query # <<>> THEN s.query ELSE s.header
          IN  IF carried # <<>>
              THEN /\ Cardinality(NewCalls) = 1
                   /\ \A i \in NewCalls : NewEntries[i].sid = carried
              ELSE IF Cardinality(DOMAIN sessions) = 1
              THEN /\ Cardinality(NewCalls) = 1
                   /\ \A i \in NewCalls : DOMAIN sessions = {NewEntries[i].sid}
              ELSE /\ NewCalls = {}
                   /\ Len(NewEntries) = 2
                   /\ NewEntries[2].t = "ack"
                   /\ NewEntries[2].status = 400
                   /\ NewEntries[2].body = NoSessionText
      ]_vars

Entries(t) == { i \in DOMAIN hlog : hlog[i].t = t }

\* A submit without a session id went to the only session, and another was
\* rejected while two sessions were registered.
C14_Witness ==
    /\ Cardinality(DOMAIN sessions) = 2
    /\ \E i \in Entries("submit"), j \in Entries("onmessage") :
          /\ hlog[i].query = <<>> /\ hlog[i].header = <<>>
          /\ hlog[j].re = hlog[i].re
    /\ \E i \in Entries("submit"), j \in Entries("ack") :
          /\ hlog[i].query = <<>> /\ hlog[i].header = <<>>
          /\ hlog[j].re = hlog[i].re /\ hlog[j].body = NoSessionText

\* The frames that answer submit k.
Answers(k) ==
    { f \in Entries("frame") : hlog[f].event = "message" /\ hlog[f].re = k }

\* C15: a submit passed to onmessage is acknowledged once, with 202 and the
\* body 'accepted' and nothing else; every response to it is pushed after the
\* acknowledgment, as a message frame on the channel of the session the
\* submit was resolved to.
C15_AckThenPush ==
    \A i \in Entries("onmessage") :
        LET k == hlog[i].re
            acks == { j \in Entries("ack") : hlog[j].re = k }
        IN  /\ Cardinality(acks) = 1
            /\ \A j \in acks :
                  /\ j > i
                  /\ hlog[j].status = 202 /\ hlog[j].body = "accepted"
                  /\ \A f \in Answers(k) :
                        /\ f > j
                        /\ channels[hlog[f].ch].sid = hlog[i].sid

\* A response was pushed on the channel of a session a submit named.
C15_Witness ==
    \E i \in Entries("onmessage") :
        /\ Answers(hlog[i].re) # {}
        /\ hlog[i].sid = <<"a">>

\* C16: a send to a session id that is not registered throws and writes
\* nothing; a send whose write fails throws, and the session is not
\* registered afterwards.
C16_SendFailure ==
    [][ SendCalled =>
          LET e == hlog'[Len(hlog')]
          IN  /\ e.sid \notin DOMAIN sessions =>
                    (~e.ok /\ Len(hlog') = Len(hlog) + 1)
              /\ e.w \notin {"written", "no write"} =>
                    (~e.ok /\ e.sid \notin DOMAIN sessions')
      ]_vars

\* C31: a submit with no body, or with a jsonrpc member other than "2.0", is
\* answered with status 400 and the error -32600 'Invalid Request'; onmessage
\* is not called for it and the session registry stays as it was.
C31_InvalidSubmitRejected ==
    [][ (Submitted /\ ~NewEntries[1].valid) =>
          /\ NewCalls = {}
          /\ Len(NewEntries) = 2
          /\ NewEntries[2].t = "ack"
          /\ NewEntries[2].status = 400
          /\ NewEntries[2].code = -32600
          /\ NewEntries[2].body = InvalidRequestText
          /\ sessions' = sessions
      ]_vars

\* With a session registered, a submit without a body and a submit with
\* jsonrpc "1.0" were made.
C31_Witness ==
    /\ DOMAIN sessions # {}
    /\ \E i, j \in Entries("submit") :
          /\ hlog[i].jsonrpc = Absent
          /\ hlog[j].jsonrpc = "1.0"
    /\ \A i \in Entries("ack") : hlog[i].status = 400

\* The submits passed to onmessage that are requests for the built-in method
\* ping, made on a session that was registered.
PingRequests ==
    { i \in Entries("onmessage") :
        hlog[i].method = "ping" /\ hlog[i].id # Absent /\ hlog[i].ch # 0 }

\* C32: in the example server a request for a registered method, submitted
\* on a registered session, is answered by exactly one message frame on the
\* channel of that session; the frame carries the id of the request (id 0
\* included) and the value the handler returned, as a result.
C32_ResultPushed ==
    \A i \in PingRequests :
        /\ Cardinality(Answers(hlog[i].re)) = 1
        /\ \A f \in Answers(hlog[i].re) :
              /\ hlog[f].ch = hlog[i].ch
              /\ hlog[f].data.id = hlog[i].id
              /\ hlog[f].data.kind = "result"
              /\ hlog[f].data.result = JsObject("{}")

\* C33: when requests with the same id were submitted on two sessions of
\* the example server, each of them is answered on the channel of its own
\* session: no answer goes to the other session and none is lost.
C33_SameIdRouting ==
    \A i, j \in PingRequests :
        (hlog[i].ch # hlog[j].ch /\ hlog[i].id = hlog[j].id) =>
            /\ Answers(hlog[i].re) # {}
            /\ \A f \in Answers(hlog[i].re) : hlog[f].ch = hlog[i].ch

Disconnected(ch) == channels[ch].state # "gone" /\ channels'[ch].state = "gone"

\* C34: an entry of the session registry goes away only when the channel
\* registered under its id closes or a write on it fails; when the channel of
\* an earlier subscribe with the same id closes, the entry of the newer
\* channel stays.
C34_NewerChannelStays ==
    [][ \A sid \in DOMAIN sessions :
          sid \notin DOMAIN sessions' =>
              \/ Disconnected(sessions[sid])
              \/ /\ SendCalled
                 /\ hlog'[Len(hlog')].sid = sid
                 /\ hlog'[Len(hlog')].w \notin {"written", "no write"}
      ]_vars

\* C19: when the client of a session disconnects, the entry under the
\* session's id is removed and onclose is called; a send to an id that is not
\* registered fails with 'Session not found' and writes nothing, a submit
\* without a session id is resolved among the registered sessions only, and
\* an id comes back into the registry only by a subscribe.
C19_Teardown ==
    [][ /\ \A ch \in DOMAIN channels :
              Disconnected(ch) =>
                  /\ channels[ch].sid \notin DOMAIN sessions'
                  /\ hlog' = Append(hlog, [t |-> "onclose", by |-> "disconnect"])
        /\ SendCalled =>
              LET e == hlog'[Len(hlog')]
              IN  (e.sid # <<>> /\ e.sid \notin DOMAIN sessions) =>
                      /\ ~e.ok /\ e.err = SessionNotFoundText
                      /\ Len(hlog') = Len(hlog) + 1
        /\ (Submitted /\ NewEntries[1].query = <<>> /\ NewEntries[1].header = <<>>) =>
              \A i \in NewCalls : NewEntries[i].sid \in DOMAIN sessions
        /\ \A sid \in DOMAIN sessions' \ DOMAIN sessions :
              Subscribed /\ channels'[Len(channels')].sid = sid
      ]_vars

\* After the client of session a went away, a send to a failed as unknown
\* session and a submit without a session id went to the session left.
C19_Witness ==
    /\ \E ch \in DOMAIN channels :
          channels[ch].state = "gone" /\ channels[ch].sid = <<"a">>
    /\ \E i \in Entries("onclose"), j \in Entries("send") :
          i < j /\ hlog[j].sid = <<"a">> /\ hlog[j].err = SessionNotFoundText
    /\ <<"a">> \notin DOMAIN sessions

(***************************************************************************)
(* Properties of start() and close() of the two transports.                *)
(***************************************************************************)
\* The position in the history of the call numbered n.
CallAt(t, n) == CHOOSE i \in Entries(t) : hlog[i].n = n

\* C17: a second start() with no close() in between does not succeed and
\* sets up nothing: the line-framed transport has at most one listener on its
\* input, and the HTTP transport has created at most one server more than
\* it has closed; also when the second start() comes before the first ended.
C17_SingleStart ==
    /\ listeners <= 1
    /\ \A i, j \in DOMAIN stdioLog :
          (i < j /\ stdioLog[i] = "start resolved" /\ stdioLog[j] = "start resolved") =>
              \E c \in (i + 1)..(j - 1) : stdioLog[c] = "close resolved"
    /\ Len(servers) <= 1 + Count("close resolved")
    /\ \A i, j \in Entries("start()") :
          (i < j /\ \A c \in Entries("close()") : ~(i < c /\ c < j)) =>
              \A r \in Entries("start resolved") : hlog[r].n # hlog[j].n

\* C18: no close() fails; a shutdown calls onclose once at most; and when a
\* close() has completed, the listeners are detached (line-framed transport),
\* every channel of a session is ended and the registry is empty (HTTP).
C18_CloseIdempotent ==
    /\ Cardinality({ i \in DOMAIN stdioLog : stdioLog[i] = "onclose" })
         <= Cardinality({ i \in DOMAIN stdioLog : stdioLog[i] = "start resolved" })
    /\ ~started => listeners = 0
    /\ Count("close rejected") = 0
    /\ Cardinality({ i \in Entries("onclose") : hlog[i].by = "close" })
         <= Count("start resolved")
    /\ (~hStarted /\ Count("close resolved") > 0) =>
          /\ DOMAIN sessions = {}
          /\ \A ch \in DOMAIN channels : channels[ch].state # "open"

(***************************************************************************)
(* The test client (src/src/test/mcp-test-client.js).  The promise of a    *)
(* connect() call is that of its _initialize(), which awaits the           *)
(* initialize request and then the send of the initialized notification.   *)
(***************************************************************************)
ClientFresh ==
    /\ cTransport = "null"
    /\ cRequestId = 0
    /\ cHandlers = {}
    /\ cTimers = {}
    /\ cInitialized = FALSE
    /\ cCalls = <<>>
    /\ cLog = <<>>
    /\ eventSource = FALSE
    /\ nextId = 1
    /\ pendingRequests = {}
    /\ requests = <<>>

\* History: event t of connect() call number call, about the message id.
Ev(t, call, id) == [t |-> t, call |-> call, id |-> id]

\* The connect() call whose initialize request has the id, 0 when none has.
CallOf(id) ==
    IF \E n \in 1..Len(cCalls) : cCalls[n].id = id
    THEN CHOOSE n \in 1..Len(cCalls) : cCalls[n].id = id
    ELSE 0

\* What the peer may send the client: a response to an id, whose result is
\* an initialize result, or null, or which has an error, or whose error is
\* null; and a request.
ClientMessages ==
    { [id |-> i, payload |-> p] :
        i \in {"0", "1"}, p \in {"result", "result null", "error", "error null"} }
    \cup { [id |-> "7", payload |-> "request"] }

\* connect(transport), called when no earlier connect() is still pending:
\* start() resolves or throws; then _initialize() calls request('initialize'),
\* whose send is accepted or rejects.
ClientConnect(startOk, sendOk) ==
    /\ Len(cCalls) < MaxConnects
    /\ \A n \in 1..Len(cCalls) : cCalls[n].status # "pending"
    /\ Len(cLog) < MaxClientLog
    /\ cTransport' = "started"
    /\ LET n == Len(cCalls) + 1
           id == ToString(cRequestId)
       IN  IF ~startOk
           THEN /\ cCalls' = Append(cCalls, [id |-> "none", status |-> "rejected",
                                             fresh |-> ~cInitialized])
                /\ cLog' = Append(cLog, Ev("start threw", n, "none"))
                /\ UNCHANGED <<cRequestId, cHandlers, cTimers>>
           ELSE /\ cRequestId' = cRequestId + 1
                /\ cHandlers' = cHandlers \cup {id}
                /\ cTimers' = cTimers \cup {id}
                /\ cCalls' = Append(cCalls, [id |-> id,
                                             status |-> IF sendOk THEN "pending"
                                                        ELSE "rejected",
                                             fresh |-> ~cInitialized])
                /\ cLog' = Append(cLog, Ev(IF sendOk THEN "initialize sent"
                                           ELSE "initialize send failed", n, id))
    /\ UNCHANGED cInitialized
    /\ UNCHANGED <<engineVars, stdioVars, httpVars, sseVars>>

ContinueInitializeMutant(status, payload, notifyOk) ==
    IF status # "pending" \/ payload = "error null"
    THEN [status |-> status, notified |-> FALSE, initialized |-> FALSE]
    ELSE IF payload = "result"
    THEN [status |-> "resolved", notified |-> notifyOk, initialized |-> TRUE]
    ELSE [status |-> "rejected", notified |-> FALSE, initialized |-> FALSE]

\* The response handler of request() and what follows it in _initialize():
\* the new state of the promise of connect(), whether the initialized
\* notification was sent, and whether _initialized was set.
ContinueInitialize(status, payload, notifyOk) ==
    IF status # "pending" \/ payload = "error null"
    THEN [status |-> status, notified |-> FALSE, initialized |-> FALSE]
    ELSE IF payload = "result"
    THEN [status |-> IF notifyOk THEN "resolved" ELSE "rejected",
          notified |-> notifyOk, initialized |-> notifyOk]
    ELSE [status |-> "rejected", notified |-> FALSE, initialized |-> FALSE]

\* _onMessage(m) of the client, and the continuations it makes run.
ClientOnMessage(m, notifyOk) ==
    /\ cTransport = "started"
    /\ Len(cLog) + 2 <= MaxClientLog
    /\ IF m.payload = "request"
       THEN /\ cLog' = Append(cLog, Ev("error reply sent", 0, m.id))
            /\ UNCHANGED <<cHandlers, cTimers, cCalls, cInitialized>>
       ELSE IF m.id \notin cHandlers
       THEN /\ cLog' = Append(cLog, Ev("unknown id", 0, m.id))
            /\ UNCHANGED <<cHandlers, cTimers, cCalls, cInitialized>>
       ELSE LET n == CallOf(m.id)
                r == ContinueInitialize(cCalls[n].status, m.payload, notifyOk)
            IN  /\ cHandlers' = cHandlers \ {m.id}
                /\ cTimers' = cTimers \ {m.id}
                /\ cCalls' = [cCalls EXCEPT ![n].status = r.status]
                /\ cInitialized' = (cInitialized \/ r.initialized)
                /\ cLog' = cLog \o <<Ev(m.payload, n, m.id)>>
                             \o (IF r.notified THEN <<Ev("notification sent", n, m.id)>>
                                 ELSE <<>>)
    /\ UNCHANGED <<cTransport, cRequestId>>
    /\ UNCHANGED <<engineVars, stdioVars, httpVars, sseVars>>

\* The 60 s timer of the client's request id fires.
ClientTimeout(id) ==
    /\ id \in cTimers
    /\ Len(cLog) < MaxClientLog
    /\ cTimers' = cTimers \ {id}
    /\ cHandlers' = cHandlers \ {id}
    /\ cCalls' = [cCalls EXCEPT ![CallOf(id)].status = Settle(@, "rejected")]
    /\ cLog' = Append(cLog, Ev("timed out", CallOf(id), id))
    /\ UNCHANGED <<cTransport, cRequestId, cInitialized>>
    /\ UNCHANGED <<engineVars, stdioVars, httpVars, sseVars>>

\* close() of the client.
ClientClose ==
    /\ cTransport = "started"
    /\ Len(cLog) < MaxClientLog
    /\ cTransport' = "null"
    /\ cLog' = Append(cLog, Ev("closed", 0, "none"))
    /\ UNCHANGED <<cRequestId, cHandlers, cTimers, cInitialized, cCalls>>
    /\ UNCHANGED <<engineVars, stdioVars, httpVars, sseVars>>

Connects == \E startOk, sendOk \in BOOLEAN : ClientConnect(startOk, sendOk)
ServerSends == \E m \in ClientMessages : \E notifyOk \in BOOLEAN : ClientOnMessage(m, notifyOk)
ClientExpire == \E id \in cTimers : ClientTimeout(id)

\* The positions in the history of the events t of connect() call n.
At(t, n) == { i \in 1..Len(cLog) : cLog[i].t = t /\ cLog[i].call = n }

\* The initialize request of connect() call n failed or timed out.
InitializeFailed(n) ==
    At("initialize send failed", n) \cup At("error", n) \cup At("timed out", n) # {}

\* The handshake of connect() call n, the last one when last is true, is in
\* order.
InOrderHandshake(n, last) ==
    /\ \A i \in At("notification sent", n) :
           \E a \in At("initialize sent", n) : \E b \in At("result", n) : a < b /\ b < i
    /\ (last /\ cInitialized) => At("notification sent", n) # {}
    /\ cCalls[n].status = "resolved" =>
           (At("notification sent", n) # {} /\ cInitialized)
    /\ InitializeFailed(n) =>
           /\ At("notification sent", n) = {}
           /\ cCalls[n].status = "rejected"
           /\ last => ~cInitialized

SettledAt(i) == { n \in 1..Len(settled) : settled[n].send = i }

\* C27: a send whose write the sink answered with a full buffer stays
\* pending until the sink emits drain and resolves in that event; a send whose
\* write the sink accepted resolves in the call; either way its frame is in
\* the output exactly once, and a drain writes nothing.
C27_DrainDeferral ==
    /\ \A w \in 1..Len(writes) :
          LET i == writes[w].send
              e == sendLog[i]
          IN  /\ writes[w].answer = "full" =>
                    \/ i \in waiting /\ SettledAt(i) = {}
                    \/ /\ i \notin waiting
                       /\ Cardinality(SettledAt(i)) = 1
                       /\ \A n \in SettledAt(i) : settled[n].how = "drain"
                       /\ drained >= 1
              /\ writes[w].answer = "accepted" =>
                    /\ i \notin waiting
                    /\ Cardinality(SettledAt(i)) = 1
                    /\ \A n \in SettledAt(i) : settled[n].how = "write"
              /\ writes[w].answer \in {"full", "accepted"} =>
                    /\ Cardinality({ x \in 1..Len(writes) : writes[x].send = i }) = 1
                    /\ e.wrote = Len(e.text) + 1
                    /\ SubSeq(stdout, WroteBefore(i) + 1, WroteBefore(i) + e.wrote)
                         = e.text \o <<"\n">>
    /\ Len(stdout) = WroteBefore(Len(sendLog) + 1)
    /\ drained = 0 => \A n \in 1..Len(settled) : settled[n].how # "drain"

\* One send resolved in its call and another only when the sink drained.
C27_Witness ==
    \E a, b \in 1..Len(writes) :
        /\ writes[a].answer = "full" /\ writes[b].answer = "accepted"
        /\ \E n \in SettledAt(writes[a].send) : settled[n].how = "drain"
        /\ \E n \in SettledAt(writes[b].send) : settled[n].how = "write"
        /\ Len(stdout) = sendLog[1].wrote + sendLog[2].wrote

\* The frames of the first n sends, in order.
RECURSIVE FramesOf(_)
FramesOf(n) ==
    IF n = 0 THEN <<>>
    ELSE FramesOf(n - 1)
         \o (IF sendLog[n].wrote > 0 THEN sendLog[n].text \o <<"\n">> ELSE <<>>)

Times(x) == Cardinality({ i \in 1..Len(stdioLog) : stdioLog[i] = x })

\* C30: the output stream holds the frames send() wrote and nothing else,
\* and every diagnostic line of the transport and of the callbacks of the
\* engine is on the diagnostic stream: two lines for each message or parse
\* error, one for a start, one for a close of a closed transport and two for
\* a close.
C30_DiagnosticsApart ==
    /\ stdout = FramesOf(Len(sendLog))
    /\ Len(stderr) = 2 * Len(events) + Times("start resolved")
                       + Times("close returned") + 2 * Times("close resolved")
    /\ \A i \in 1..Len(events) :
          \E n \in 1..Len(stderr) :
             /\ stderr[n].by = "StdioTransport"
             /\ stderr[n].line = events[i].line
             /\ stderr[n].text = (IF events[i].t = "message" THEN "Received message"
                                   ELSE "Failed to parse JSON")

\* Frames were sent, a message and a parse error were logged, and the
\* transport was closed.
C30_Witness ==
    /\ stdout # <<>>
    /\ \E n \in 1..Len(stderr) : stderr[n].text = "Received message"
    /\ \E n \in 1..Len(stderr) : stderr[n].text = "Failed to parse JSON"
    /\ \E n \in 1..Len(stderr) : stderr[n].text = "Closed"

\* C39: onerror reports a parse failure only for a line that is no valid
\* JSON document, whatever the consumer of the messages does; a line that is
\* one is delivered through onmessage.
C39_ParseErrorsOnly ==
    \A i \in 1..Len(events) :
        events[i].t = "error" => ~JsonParse(events[i].line).ok

\* C40: while the transport is not started, no onmessage or onerror event is
\* delivered, every send fails as not started and writes nothing; and onclose
\* is only ever called after a start.
C40_ClosedIsQuiet ==
    [][ /\ (~started /\ ~started') =>
              /\ events' = events
              /\ stdout' = stdout
              /\ \A i \in (Len(sendLog) + 1)..Len(sendLog') :
                     sendLog'[i].outcome = "not started" /\ sendLog'[i].wrote = 0
        /\ \A i \in 1..Len(stdioLog') :
              stdioLog'[i] = "onclose" =>
                  \E j \in 1..(i - 1) : stdioLog'[j] = "start resolved"
      ]_vars

\* The transport was started and closed with input still to come, and a send
\* after the close failed.
C40_Witness ==
    /\ ~started
    /\ \E i \in 1..Len(stdioLog) : stdioLog[i] = "close resolved"
    /\ pos < Len(stream)
    /\ sendLog # <<>>
    /\ sendLog[Len(sendLog)].outcome = "not started"
    /\ events # <<>>

Init == EngineInit /\ StdioIdle /\ HttpIdle /\ ClientFresh
Next == Connect \/ Close \/ Register \/ Arrive \/ HandlerEnds
Spec == Init /\ [][Next]_vars

NextCorrelator == Connect \/ Close \/ PeerAnswers \/ Issue \/ Expire
SpecCorrelator == Init /\ [][NextCorrelator]_vars

NextClient == Connects \/ ServerSends \/ ClientExpire \/ ClientClose
SpecClient == Init /\ [][NextClient]_vars

NextTools == Connect \/ Register \/ ToolCall
SpecTools == Init /\ [][NextTools]_vars

\* The timers of request() fire when their 60 s have passed.
SpecCorrelatorFair == SpecCorrelator /\ WF_vars(Expire)

NextHandshake == Connect \/ Register \/ Greet \/ HandlerEnds
SpecHandshake == Init /\ [][NextHandshake]_vars

InitFraming == EngineInit /\ StdioInit /\ HttpIdle /\ ClientFresh
NextFraming == Start \/ Read
SpecFraming == InitFraming /\ [][NextFraming]_vars

NextSend == Start \/ Write \/ SinkDrains
SpecSend == Init /\ [][NextSend]_vars

NextConsumer == Start \/ ReadConsumer
SpecConsumer == InitFraming /\ [][NextConsumer]_vars

InitWhole == EngineInit /\ StdioWhole /\ HttpIdle /\ ClientFresh
NextWhole == StdioStart \/ StdioClose \/ Read \/ Respond \/ SinkDrains
SpecWhole == InitWhole /\ [][NextWhole]_vars

NextLifecycle ==
    \/ StdioStart \/ StdioClose
    \/ HttpStart \/ HttpBinds \/ HttpClose \/ HttpCloseEvent
    \/ Opens \/ Disconnect
SpecLifecycle == Init /\ [][NextLifecycle]_vars

InitSessions == EngineInit /\ StdioIdle /\ HttpRunning /\ ClientFresh
NextSessions == Subscribe \/ Submit \/ Push \/ Disconnect
SpecSessions == InitSessions /\ [][NextSessions]_vars

NextExample == Opens \/ Posts \/ Disconnect
SpecExample == InitSessions /\ [][NextExample]_vars

NextSseClient ==
    SseClientConnect \/ SseRequests \/ SsePosts \/ SseEvents \/ SseClientClose
SpecSseClient == Init /\ [][NextSseClient]_vars
====
